---------------------------- MODULE Spec2Model ----------------------------
(***************************************************************************)
(* A model of the question-generation core of cert-exam-gen:               *)
(*   - the Distribution Allocator   (distribute_questions),                *)
(*   - the Type Classifier          (analyze_question_types, two variants),*)
(*   - the Text Normalizer          (preprocess_text),                     *)
(*   - the Question Postprocessor   (postprocess_questions).               *)
(*                                                                         *)
(* Text is a sequence of characters; a character is a short string: an     *)
(* ASCII character stands for itself, a control character is named         *)
(* ("LF", "CR", "SP", "TAB", "BT" the backtick), a Hangul syllable is      *)
(* romanised in brackets ("[yeon]").                                       *)
(*                                                                         *)
(* A weight (a Python float in the code) is an exact fraction              *)
(* [num |-> a, den |-> b]; int(n * r) is the floor of the exact product.   *)
(***************************************************************************)
EXTENDS Integers, Sequences, FiniteSets, TLC

VARIABLES
    pc,        \* position of the running function
    n,         \* distribute_questions: requested total
    ratios,    \* distribute_questions: TypeRatio, in dict iteration order
    items,     \* distribute_questions: ratios sorted by descending weight
    i,         \* distribute_questions: loop index (0-based, as enumerate)
    left,      \* distribute_questions: remaining budget
    out,       \* distribute_questions: counts before the final filter
    dist,      \* distribute_questions: the returned Distribution
    ctext,         \* analyze_question_types: the text handed in
    simple_ratios, \* question_generator.py: the returned TypeRatio
    gpt4o_ratios,  \* question_generator_gpt4o.py: the returned TypeRatio
    raw,       \* preprocess_text: the argument
    text,      \* preprocess_text: the text being rewritten
    lines,     \* preprocess_text: text.split("\n")
    li,        \* preprocess_text: position of the scan in lines (1-based)
    code_buf,  \* preprocess_text: buffered code lines
    nout,      \* preprocess_text: the list out of emitted lines and fences
    in_code,   \* preprocess_text: the scanner's state
    result,    \* preprocess_text: the returned text
    pass,      \* 1 in preprocess_text(x), 2 in preprocess_text(preprocess_text(x))
    first,     \* the text returned by the first pass
    questions, \* postprocess_questions: the argument, a list of records
    processed, \* postprocess_questions: the list being returned
    qi,        \* postprocess_questions: position of the loop in questions
    qq,        \* postprocess_questions: the copy of the current record
    post_pass, \* 1 in postprocess(qs), 2 in postprocess(postprocess(qs))
    post_first, \* the list returned by the first pass
    heap,           \* postprocess_questions: the dicts and lists, by address
    variant,       \* "simple": question_generator.py, "gpt4o": question_generator_gpt4o.py
    num_questions, \* generate_mixed_questions: the requested total
    mdist,         \* generate_mixed_questions: the Distribution, in dict order
    mk,            \* generate_mixed_questions: position of the loop in mdist
    all_questions, \* generate_mixed_questions: the records accumulated so far
    cursor,        \* generate_mixed_questions: the next start id
    calls,         \* the generation calls issued so far, in order
    returned,      \* generate_mixed_questions: the returned list
    extension,      \* extract_text: the lower-cased suffix of the file
    reader_fails,   \* extract_text: the format's reader raises on this file
    extracted_text, \* what extract_text returned ("" when it raised)
    extract_raised, \* extract_text raised to its caller
    gen_questions,  \* main.generate_questions: the generated questions
    ragas,          \* evaluate_questions: outcome of the external scoring call
    eval_raised,    \* evaluate_questions raised to its caller
    quality_scores, \* main.generate_questions: the score map
    response,       \* main.generate_questions: the JSON response
    question_type,  \* single-type generation: the requested type
    batch_num       \* single-type generation: batches issued so far

allocVars == <<n, ratios, items, i, left, out, dist>>

clsVars == <<ctext, simple_ratios, gpt4o_ratios>>

normVars == <<raw, text, lines, li, code_buf, nout, in_code, result, pass, first>>

postVars == <<questions, processed, qi, qq, post_pass, post_first, heap>>

mixedVars ==
    <<variant, num_questions, mdist, mk, all_questions, cursor, calls, returned>>

pipeVars ==
    <<extension, reader_fails, extracted_text, extract_raised, gen_questions,
      ragas, eval_raised, quality_scores, response>>

singleVars == <<question_type, batch_num>>

vars ==
    <<pc, allocVars, clsVars, normVars, postVars, mixedVars, pipeVars, singleVars>>

\* what each component leaves alone
notAllocVars == <<clsVars, normVars, postVars, mixedVars, pipeVars, singleVars>>

notClsVars == <<allocVars, normVars, postVars, mixedVars, pipeVars, singleVars>>

notNormVars == <<allocVars, clsVars, postVars, mixedVars, pipeVars, singleVars>>

notPostVars == <<allocVars, clsVars, normVars, mixedVars, pipeVars, singleVars>>

notMixedVars == <<allocVars, clsVars, normVars, postVars, pipeVars, singleVars>>

notPipeVars == <<allocVars, clsVars, normVars, postVars, mixedVars, singleVars>>

\* what single-type generation leaves alone, beside the variables of mixed
\* generation it does not use
notSingleVars == <<allocVars, clsVars, normVars, postVars, pipeVars>>

(***************************************************************************)
(* Bounds of the model.                                                    *)
(***************************************************************************)
MaxTotal == 10
MaxCats == 3
MaxWords == 4
MaxParts == 4
MaxRecords == 2
MaxTypes == 2
MaxBatch == 2
MaxItems == 3
MaxSingle == 12
MaxExtra == 1

(***************************************************************************)
(* Generic helpers.                                                        *)
(***************************************************************************)
Max(a, b) == IF a >= b THEN a ELSE b

Min(a, b) == IF a <= b THEN a ELSE b

Frac(a, b) == [num |-> a, den |-> b]

\* a > b on fractions with positive denominators
FracGT(a, b) == a.num * b.den > b.num * a.den

RECURSIVE SeqsUpTo(_, _)
\* all sequences over S of length 0..k
SeqsUpTo(S, k) ==
    IF k = 0 THEN {<<>>}
    ELSE LET shorter == SeqsUpTo(S, k - 1)
         IN shorter \cup {Append(s, x) : s \in {t \in shorter : Len(t) = k - 1}, x \in S}

(***************************************************************************)
(* Characters and character classes (Python str and re).                   *)
(***************************************************************************)
LowerLetters ==
    {"a", "b", "c", "d", "e", "f", "g", "h", "i", "j", "k", "l", "m",
     "n", "o", "p", "q", "r", "s", "t", "u", "v", "w", "x", "y", "z"}

UpperLetters ==
    {"A", "B", "C", "D", "E", "F", "G", "H", "I", "J", "K", "L", "M",
     "N", "O", "P", "Q", "R", "S", "T", "U", "V", "W", "X", "Y", "Z"}

LowerOf ==
    [c \in UpperLetters |->
        CASE c = "A" -> "a" [] c = "B" -> "b" [] c = "C" -> "c" [] c = "D" -> "d"
          [] c = "E" -> "e" [] c = "F" -> "f" [] c = "G" -> "g" [] c = "H" -> "h"
          [] c = "I" -> "i" [] c = "J" -> "j" [] c = "K" -> "k" [] c = "L" -> "l"
          [] c = "M" -> "m" [] c = "N" -> "n" [] c = "O" -> "o" [] c = "P" -> "p"
          [] c = "Q" -> "q" [] c = "R" -> "r" [] c = "S" -> "s" [] c = "T" -> "t"
          [] c = "U" -> "u" [] c = "V" -> "v" [] c = "W" -> "w" [] c = "X" -> "x"
          [] c = "Y" -> "y" [] c = "Z" -> "z"]

\* str.lower() of one character
LowerChar(c) == IF c \in UpperLetters THEN LowerOf[c] ELSE c

\* str.lower()
Lower(t) == [j \in 1..Len(t) |-> LowerChar(t[j])]

\* the characters that match c under re.IGNORECASE
CaseSet(c) ==
    IF c \in UpperLetters THEN {c, LowerOf[c]}
    ELSE IF c \in LowerLetters THEN {c} \cup {u \in UpperLetters : LowerOf[u] = c}
    ELSE {c}

Digits == {"0", "1", "2", "3", "4", "5", "6", "7", "8", "9"}

\* \s, and the characters str.strip() removes
Space == {"SP", "TAB", "LF", "CR", "FF", "VT"}

\* [A-Za-z0-9_]
AsciiWord == LowerLetters \cup UpperLetters \cup Digits \cup {"_"}

\* the Hangul syllables of the keyword tables, patterns and labels (all \w)
Hangul ==
    {"[al]", "[an]", "[ba]", "[bae]", "[bal]", "[bang]", "[beon]",
     "[beop]", "[bin]", "[bok]", "[bun]", "[cha]", "[cham]", "[cheo]",
     "[chul]", "[da]", "[dae]", "[dan]", "[dap]", "[deu]", "[deul]",
     "[do]", "[e]", "[eo]", "[eol]", "[eu]", "[eul]", "[eum]", "[eun]",
     "[ga]", "[gae]", "[gal]", "[gan]", "[gaps]", "[geon]", "[geos]",
     "[geu]", "[gi]", "[go]", "[gong]", "[gu]", "[gwa]", "[gwan]", "[gye]",
     "[gyeol]", "[ha]", "[hae]", "[haeng]", "[han]", "[heu]", "[hi]",
     "[hwang]", "[hyeon]", "[i]", "[in]", "[ja]", "[jap]", "[je]",
     "[jeok]", "[jeol]", "[jeong]", "[jeum]", "[ji]", "[jing]", "[jjak]",
     "[jo]", "[jung]", "[kan]", "[ko]", "[kyu]", "[ma]", "[maj]", "[mal]",
     "[mun]", "[myeong]", "[na]", "[naen]", "[neun]", "[neung]", "[no]",
     "[non]", "[nyeom]", "[o]", "[ol]", "[olh]", "[pek]", "[peu]",
     "[peul]", "[pyo]", "[ra]", "[rae]", "[raem]", "[reul]", "[reum]",
     "[reun]", "[ri]", "[rim]", "[rin]", "[ro]", "[rye]", "[ryeok]",
     "[ryo]", "[sa]", "[san]", "[sang]", "[se]", "[seo]", "[seok]",
     "[seol]", "[seong]", "[seu]", "[si]", "[sik]", "[sil]", "[so]",
     "[sok]", "[sseu]", "[sul]", "[sun]", "[syeon]", "[ta]", "[taek]",
     "[tem]", "[teu]", "[teuk]", "[teul]", "[ttae]", "[ui]", "[wa]",
     "[we]", "[ye]", "[yeok]", "[yeol]", "[yeon]", "[yeong]", "[yo]"}

\* \w
WordChars == AsciiWord \cup Hangul

(***************************************************************************)
(* Regular expressions (Python re): a regex is a sequence of alternatives, *)
(* tried in order; an alternative is a sequence of elements, matched       *)
(* greedily with backtracking.  An element matches one character of a      *)
(* class ("one"), an optional one ("opt"), a run ("star", "plus"), or is a *)
(* zero-width assertion ("bos": ^, "bol": ^ under re.MULTILINE, "eos": $,  *)
(* "wb": \b).                                                              *)
(***************************************************************************)
El(kind, isDot, S) == [k |-> kind, dot |-> isDot, s |-> S]

One(S) == El("one", FALSE, S)

Opt(S) == El("opt", FALSE, S)

Star(S) == El("star", FALSE, S)

Plus(S) == El("plus", FALSE, S)

\* .* and .+ ('.' is any character but the newline)
DotStar == El("star", TRUE, {})

DotPlus == El("plus", TRUE, {})

Bos == El("bos", FALSE, {})

Bol == El("bol", FALSE, {})

Eos == El("eos", FALSE, {})

WordB == El("wb", FALSE, {})

\* a literal string
Lit(t) == [j \in 1..Len(t) |-> One({t[j]})]

\* a literal string under re.IGNORECASE
LitI(t) == [j \in 1..Len(t) |-> One(CaseSet(t[j]))]

InClass(c, e) == IF e.dot THEN c # "LF" ELSE c \in e.s

RECURSIVE RunEnd(_, _, _)
\* the first position >= j of t whose character is not in the class of e
RunEnd(e, t, j) ==
    IF j <= Len(t) /\ InClass(t[j], e) THEN RunEnd(e, t, j + 1) ELSE j

SetMax(S) == CHOOSE x \in S : \A y \in S : y <= x

\* zero-width assertions at position j of t
AssertionHolds(e, t, j) ==
    CASE e.k = "bos" -> j = 1
      [] e.k = "bol" -> j = 1 \/ t[j - 1] = "LF"
      [] e.k = "eos" -> j = Len(t) + 1 \/ (j = Len(t) /\ t[j] = "LF")
      [] e.k = "wb" ->
            LET before == j > 1 /\ t[j - 1] \in WordChars
                after == j <= Len(t) /\ t[j] \in WordChars
            IN before # after

RECURSIVE MatchEnd(_, _, _, _)
\* the position after the match of alt[k..] at t[j..], 0 when there is none
MatchEnd(alt, k, t, j) ==
    IF k > Len(alt) THEN j
    ELSE LET e == alt[k] IN
        CASE e.k = "one" ->
                IF j <= Len(t) /\ InClass(t[j], e)
                THEN MatchEnd(alt, k + 1, t, j + 1) ELSE 0
          [] e.k = "opt" ->
                LET taken == IF j <= Len(t) /\ InClass(t[j], e)
                             THEN MatchEnd(alt, k + 1, t, j + 1) ELSE 0
                IN IF taken # 0 THEN taken ELSE MatchEnd(alt, k + 1, t, j)
          [] e.k \in {"star", "plus"} ->
                LET lo == IF e.k = "plus" THEN j + 1 ELSE j
                    good == {x \in lo..RunEnd(e, t, j) :
                                MatchEnd(alt, k + 1, t, x) # 0}
                IN IF good = {} THEN 0
                   ELSE MatchEnd(alt, k + 1, t, SetMax(good))
          [] OTHER ->
                IF AssertionHolds(e, t, j)
                THEN MatchEnd(alt, k + 1, t, j) ELSE 0

RECURSIVE AltMatchEnd(_, _, _, _)
\* the match at position j of the first alternative re[a..] that matches
AltMatchEnd(re, a, t, j) ==
    IF a > Len(re) THEN 0
    ELSE LET e == MatchEnd(re[a], 1, t, j)
         IN IF e # 0 THEN e ELSE AltMatchEnd(re, a + 1, t, j)

RECURSIVE FindAllFrom(_, _, _)
\* the non-overlapping matches of re in t from position j on, leftmost
\* first, as <<start, end>> with end the position after the match
FindAllFrom(re, t, j) ==
    IF j > Len(t) + 1 THEN <<>>
    ELSE LET e == AltMatchEnd(re, 1, t, j)
         IN IF e = 0 THEN FindAllFrom(re, t, j + 1)
            ELSE <<(<<j, e>>)>> \o
                 FindAllFrom(re, t, IF e > j THEN e ELSE j + 1)

\* re.findall(re, t), as spans
FindAll(re, t) == FindAllFrom(re, t, 1)

\* re.search(re, t) is not None
Search(re, t) == \E j \in 1..(Len(t) + 1) : AltMatchEnd(re, 1, t, j) # 0

RECURSIVE SubSpans(_, _, _, _, _)
\* t from position j on, with span spans[m] replaced by repls[m]
SubSpans(t, spans, repls, m, j) ==
    IF m > Len(spans) THEN SubSeq(t, j, Len(t))
    ELSE SubSeq(t, j, spans[m][1] - 1) \o repls[m]
         \o SubSpans(t, spans, repls, m + 1, spans[m][2])

\* re.sub(re, repl, t) for a constant replacement
SubConst(re, repl, t) ==
    LET spans == FindAll(re, t)
    IN SubSpans(t, spans, [m \in 1..Len(spans) |-> repl], 1, 1)

\* t.count(w): the non-overlapping occurrences of the string w
StrCount(t, w) == Len(FindAll(<<Lit(w)>>, t))

\* w in t
Contains(t, w) == Search(<<Lit(w)>>, t)

RECURSIVE StripLeft(_)
StripLeft(t) == IF t # <<>> /\ Head(t) \in Space THEN StripLeft(Tail(t)) ELSE t

RECURSIVE RStrip(_)
\* str.rstrip()
RStrip(t) ==
    IF t # <<>> /\ t[Len(t)] \in Space THEN RStrip(SubSeq(t, 1, Len(t) - 1)) ELSE t

\* str.strip()
Strip(t) == RStrip(StripLeft(t))

(***************************************************************************)
(* Distribution Allocator: distribute_questions(n, ratios).                *)
(***************************************************************************)
\* category names, by position in the dict
CatNames == <<"a", "b", "c", "d", "e">>

\* weights the allocator is exercised with, in hundredths
AllocWeights == {Frac(w, 100) : w \in {0, 5, 10, 20, 33, 34, 70, 100, 150}}

\* int(n * r)
IntTimes(k, r) == (k * r.num) \div r.den

RECURSIVE InsertDesc(_, _)
\* insert x after every element whose weight is >= x's (stable)
InsertDesc(s, x) ==
    IF s = <<>> THEN <<x>>
    ELSE IF FracGT(x.r, Head(s).r) THEN <<x>> \o s
    ELSE <<Head(s)>> \o InsertDesc(Tail(s), x)

RECURSIVE SortDesc(_)
\* sorted(ratios.items(), key=weight, reverse=True): stable, descending
SortDesc(s) ==
    IF s = <<>> THEN <<>>
    ELSE InsertDesc(SortDesc(SubSeq(s, 1, Len(s) - 1)), s[Len(s)])

\* a count bounded by the budget but reserving nothing for the categories after
UnreservedCount(k, r, lft, after) == Min(Max(1, IntTimes(k, r)), lft)

\* the count of a category that is not the last one
ClampedCount(k, r, lft, after) == Min(Max(1, IntTimes(k, r)), lft - after)

LastCountAll(k, lft) == k

\* the count of the last category
LastCount(k, lft) == lft

FilterKeepAll(o) == o

\* {k: v for k, v in out.items() if v > 0}
FilterPositive(o) == SelectSeq(o, LAMBDA e : e.cnt > 0)

RECURSIVE SumCounts(_)
SumCounts(o) == IF o = <<>> THEN 0 ELSE Head(o).cnt + SumCounts(Tail(o))

AllocIdle ==
    /\ n = 0 /\ ratios = <<>> /\ items = <<>> /\ i = 0
    /\ left = 0 /\ out = <<>> /\ dist = <<>>

ClsIdle == ctext = <<>> /\ simple_ratios = <<>> /\ gpt4o_ratios = <<>>

NormIdle ==
    /\ raw = <<>> /\ text = <<>> /\ lines = <<>> /\ li = 0
    /\ code_buf = <<>> /\ nout = <<>> /\ in_code = FALSE
    /\ result = <<>> /\ pass = 0 /\ first = <<>>

PostIdle ==
    /\ questions = <<>> /\ processed = <<>> /\ qi = 0 /\ qq = <<>>
    /\ post_pass = 0 /\ post_first = <<>> /\ heap = <<>>

MixedIdle ==
    /\ variant = "" /\ num_questions = 0 /\ mdist = <<>> /\ mk = 0
    /\ all_questions = <<>> /\ cursor = 0 /\ calls = <<>> /\ returned = <<>>

PipeIdle ==
    /\ extension = "" /\ reader_fails = FALSE /\ extracted_text = ""
    /\ extract_raised = FALSE /\ gen_questions = <<>> /\ ragas = ""
    /\ eval_raised = FALSE /\ quality_scores = <<>> /\ response = <<>>

SingleIdle == question_type = "" /\ batch_num = 0

AllocInit ==
    /\ pc = "alloc_start"
    /\ n \in 1..MaxTotal
    /\ \E ws \in SeqsUpTo(AllocWeights, MaxCats) :
          /\ ws # <<>>
          /\ ratios = [j \in 1..Len(ws) |-> [t |-> CatNames[j], r |-> ws[j]]]
    /\ items = <<>> /\ i = 0 /\ left = 0 /\ out = <<>> /\ dist = <<>>
    /\ ClsIdle /\ NormIdle /\ PostIdle /\ MixedIdle /\ PipeIdle /\ SingleIdle

AllocSort ==
    /\ pc = "alloc_start"
    /\ items' = SortDesc(ratios)
    /\ left' = n
    /\ out' = <<>>
    /\ i' = 0
    /\ pc' = "alloc_loop"
    /\ UNCHANGED <<n, ratios, dist>>
    /\ UNCHANGED notAllocVars

AllocAssign ==
    /\ pc = "alloc_loop"
    /\ i < Len(items) - 1
    /\ LET cnt == ClampedCount(n, items[i + 1].r, left, Len(items) - i - 1)
       IN /\ out' = Append(out, [t |-> items[i + 1].t, cnt |-> cnt])
          /\ left' = left - cnt
    /\ i' = i + 1
    /\ UNCHANGED <<pc, n, ratios, items, dist>>
    /\ UNCHANGED notAllocVars

AllocLast ==
    /\ pc = "alloc_loop"
    /\ i = Len(items) - 1
    /\ out' = Append(out, [t |-> items[i + 1].t, cnt |-> LastCount(n, left)])
    /\ i' = i + 1
    /\ UNCHANGED <<pc, n, ratios, items, left, dist>>
    /\ UNCHANGED notAllocVars

AllocReturn ==
    /\ pc = "alloc_loop"
    /\ i = Len(items)
    /\ dist' = FilterPositive(out)
    /\ pc' = "alloc_done"
    /\ UNCHANGED <<n, ratios, items, i, left, out>>
    /\ UNCHANGED notAllocVars

AllocNext == AllocSort \/ AllocAssign \/ AllocLast \/ AllocReturn

SpecAlloc == AllocInit /\ [][AllocNext]_vars

(***************************************************************************)
(* Claims about the allocator (checked under SpecAlloc).                   *)
(***************************************************************************)
AllocDone == pc = "alloc_done"

\* left at the start of the iteration that assigned out[j]
LeftBefore(j) == n - SumCounts(SubSeq(out, 1, j - 1))

\* out[j] was raised to the minimum of 1
Raised(j) == IntTimes(n, items[j].r) < 1

\* out[j] was cut by the reservation bound left - (categories after it)
Cut(j) == Max(1, IntTimes(n, items[j].r)) > LeftBefore(j) - (Len(items) - j)

\* no count of the walk was raised to 1 or cut by the reservation bound
NoClamp == \A j \in 1..(Len(out) - 1) : ~Raised(j) /\ ~Cut(j)

ExampleRatios ==
    <<[t |-> "a", r |-> Frac(70, 100)], [t |-> "b", r |-> Frac(20, 100)],
      [t |-> "c", r |-> Frac(10, 100)]>>

ExampleDist ==
    <<[t |-> "a", cnt |-> 7], [t |-> "b", cnt |-> 2], [t |-> "c", cnt |-> 1]>>

\* C1: for every total >= 1 and every non-empty TypeRatio, the counts of the
\* returned Distribution sum to exactly total.
C1_TotalPreserved == AllocDone => SumCounts(dist) = n

\* C2: distribute_questions returns, and every count of the returned
\* Distribution is >= 1, also when total is smaller than the number of
\* categories.
C2_MinimumOne == AllocDone => \A j \in 1..Len(dist) : dist[j].cnt >= 1

\* C2 witness: a call with fewer questions than categories returned, after the
\* walk had produced a count below 1.
C2_Witness ==
    /\ AllocDone
    /\ n < Len(ratios)
    /\ \E j \in 1..Len(out) : out[j].cnt < 1
    /\ dist # <<>>

\* C3 as stated: whenever no count was raised to 1 or cut, a category with a
\* larger weight never receives fewer questions than one with a smaller
\* weight, over all categories of the walk.
C3_OrderAllCategories ==
    (AllocDone /\ NoClamp) =>
        \A j, k \in 1..Len(out) :
            FracGT(items[j].r, items[k].r) => out[j].cnt >= out[k].cnt

\* C3 amended: whenever no count was raised to 1 or cut, the ordering holds
\* between any two categories other than the last of the walk (the last one
\* absorbs the remainder), and distribute_questions(10, {a: 0.7, b: 0.2,
\* c: 0.1}) returns {a: 7, b: 2, c: 1}: counts summing to 10 with a >= b >= c.
C3_OrderBeforeLast ==
    /\ (AllocDone /\ NoClamp) =>
          \A j, k \in 1..(Len(out) - 1) :
              FracGT(items[j].r, items[k].r) => out[j].cnt >= out[k].cnt
    /\ (AllocDone /\ n = 10 /\ ratios = ExampleRatios) =>
          /\ dist = ExampleDist
          /\ SumCounts(dist) = 10
          /\ dist[1].cnt >= dist[2].cnt /\ dist[2].cnt >= dist[3].cnt

\* C3 witness: the example call returned, with no count raised or cut.
C3_Witness ==
    /\ AllocDone /\ NoClamp
    /\ n = 10 /\ ratios = ExampleRatios
    /\ dist = ExampleDist

\* C19: for every total >= 1, after each non-last category of the walk is
\* assigned, the remaining budget is at least the number of categories still
\* to be assigned, so every category (the last included) is assigned a count
\* >= 1 before the filter.
C19_ReservationKept ==
    /\ (pc = "alloc_loop" /\ i >= 1 /\ i < Len(items)) =>
          left >= Len(items) - i
    /\ (pc = "alloc_loop" /\ i = Len(items)) =>
          \A j \in 1..Len(out) : out[j].cnt >= 1

\* the category names of the entries es
NamesOf(es) == {es[j].t : j \in 1..Len(es)}

\* C24: for every TypeRatio with k categories and every total >= k, the
\* returned Distribution has exactly the category names of the TypeRatio: the
\* final filter removes nothing.
C24_NoCategoryDropped ==
    (AllocDone /\ n >= Len(ratios)) =>
        /\ NamesOf(dist) = NamesOf(ratios)
        /\ Len(dist) = Len(ratios)
        /\ dist = out

\* a call with as many questions as categories returned, after the
\* reservation bound had cut a count
C24_Witness ==
    /\ AllocDone
    /\ Len(ratios) = MaxCats /\ n = Len(ratios)
    /\ \E j \in 1..(Len(out) - 1) : Cut(j)
    /\ NamesOf(dist) = NamesOf(ratios)

(***************************************************************************)
(* Type Classifier: analyze_question_types(text), in question_generator.py *)
(* (keyword counts, floor 0.05) and in question_generator_gpt4o.py         *)
(* (regex matches plus keyword bonus, floor 0.03, renormalised).           *)
(***************************************************************************)
\* keys: per category, its keywords
Keys ==
    <<
    [t |-> "tree_analysis", ws |-> <<
        <<"[teu]", "[ri]">>, <<"F", "a", "n", "-", "I", "n">>,
        <<"F", "a", "n", "-", "O", "u", "t">>, <<"[no]", "[deu]">>,
        <<"[geu]", "[rae]", "[peu]">>>>],
    [t |-> "code_execution", ws |-> <<
        <<"J", "a", "v", "a">>, <<"p", "u", "b", "l", "i", "c">>,
        <<"c", "l", "a", "s", "s">>, <<"m", "a", "i", "n">>,
        <<"[ko]", "[deu]">>, <<"[sil]", "[haeng]">>, <<"[gyeol]", "[gwa]">>>>],
    [t |-> "algorithm_analysis", ws |-> <<
        <<"[al]", "[go]", "[ri]", "[jeum]">>, <<"[bok]", "[jap]", "[do]">>,
        <<"B", "i", "g", "-", "O">>,
        <<"[si]", "[gan]", "[bok]", "[jap]", "[do]">>>>],
    [t |-> "data_structure", ws |-> <<
        <<"[seu]", "[taek]">>, <<"[kyu]">>, <<"[bae]", "[yeol]">>,
        <<"[ri]", "[seu]", "[teu]">>, <<"[ja]", "[ryo]", "[gu]", "[jo]">>>>],
    [t |-> "diagram_matching", ws |-> <<
        <<"[geu]", "[rim]">>, <<"[do]", "[sik]">>, <<"[cha]", "[teu]">>,
        <<"[heu]", "[reum]", "[do]">>,
        <<"[peul]", "[ro]", "[cha]", "[teu]">>,
        <<"[da]", "[i]", "[eo]", "[geu]", "[raem]">>>>]
    >>

\* self.question_patterns: per category, its regexes (re.IGNORECASE)
QuestionPatterns ==
    <<
    [t |-> "multiple_choice", ps |-> <<
        LitI(<<"[da]", "[eum]", "SP", "[jung]">>) \o <<DotStar>>
            \o LitI(<<"[olh]", "[eun]", "SP", "[geos]", "[eun]", "?">>),
        <<One({"1", "2", "3", "4", "5"})>> \o LitI(<<"[beon]">>)
            \o <<DotStar>> \o LitI(<<"[jeong]", "[dap]", "[eun]", "?">>),
        LitI(<<"[c1]">>) \o <<DotStar>> \o LitI(<<"[c2]">>) \o <<DotStar>>
            \o LitI(<<"[c3]">>) \o <<DotStar>> \o LitI(<<"[c4]">>),
        LitI(<<"(", "1", ")">>) \o <<DotStar>> \o LitI(<<"(", "2", ")">>)
            \o <<DotStar>> \o LitI(<<"(", "3", ")">>) \o <<DotStar>>
            \o LitI(<<"(", "4", ")">>),
        LitI(<<"[da]", "[eum]", "SP", "[jung]">>) \o <<DotStar>>
            \o LitI(<<"[teul]", "[rin]", "SP", "[geos]", "[eun]", "?">>),
        LitI(<<"[yo]", "[so]">>) \o <<DotStar>> \o LitI(<<"[jung]">>)
            \o <<DotStar>> \o LitI(<<"[da]", "[eum]">>) \o <<DotStar>>
            \o LitI(<<"[gwan]", "[gye]">>) \o <<DotStar>>
            \o LitI(<<"[geos]", "[eun]", "?">>)>>],
    [t |-> "tree_analysis", ps |-> <<
        LitI(<<"[teu]", "[ri]">>) \o <<DotStar>> \o LitI(<<"[gu]", "[jo]">>)
            \o <<DotStar>> \o LitI(<<"[na]", "[ta]", "[naen]", "[da]">>),
        LitI(<<"F", "a", "n", "-", "I", "n">>) \o <<DotStar>>
            \o LitI(<<"F", "a", "n", "-", "O", "u", "t">>) \o <<DotStar>>
            \o LitI(<<"[eol]", "[ma]", "[in]", "[ga]">>),
        LitI(<<"[geu]", "[rae]", "[peu]">>) \o <<DotStar>>
            \o LitI(<<"[gu]", "[jo]">>) \o <<DotStar>>
            \o LitI(<<"[bun]", "[seok]">>),
        LitI(<<"[no]", "[deu]">>) \o <<DotStar>>
            \o LitI(<<"[gwan]", "[gye]">>) \o <<DotStar>>
            \o LitI(<<"[bun]", "[seok]">>),
        LitI(<<"[teu]", "[ri]">>) \o <<DotStar>>
            \o LitI(<<"F", "a", "n", "-", "I", "n">>) \o <<DotStar>>
            \o LitI(<<"F", "a", "n", "-", "O", "u", "t">>)>>],
    [t |-> "code_execution", ps |-> <<
        LitI(<<"J", "a", "v", "a">>) \o <<DotStar>>
            \o LitI(<<"[peu]", "[ro]", "[geu]", "[raem]">>) \o <<DotStar>>
            \o LitI(<<"[sil]", "[haeng]">>) \o <<DotStar>>
            \o LitI(<<"[ttae]">>) \o <<DotStar>>
            \o LitI(<<"[gyeol]", "[gwa]", "[neun]">>),
        LitI(<<"[da]", "[eum]">>) \o <<DotStar>> \o LitI(<<"[ko]", "[deu]">>)
            \o <<DotStar>> \o LitI(<<"[sil]", "[haeng]">>) \o <<DotStar>>
            \o LitI(<<"[gyeol]", "[gwa]">>),
        LitI(<<"[peu]", "[ro]", "[geu]", "[raem]">>) \o <<DotStar>>
            \o LitI(<<"[sil]", "[haeng]">>) \o <<DotStar>>
            \o LitI(<<"[chul]", "[ryeok]">>),
        LitI(<<"p", "u", "b", "l", "i", "c">>) \o <<DotStar>>
            \o LitI(<<"c", "l", "a", "s", "s">>) \o <<DotStar>>
            \o LitI(<<"m", "a", "i", "n">>) \o <<DotStar>>
            \o LitI(<<"[gyeol]", "[gwa]">>),
        LitI(<<"[ko]", "[deu]">>) \o <<DotStar>>
            \o LitI(<<"[sil]", "[haeng]">>) \o <<DotStar>>
            \o LitI(<<"[gyeol]", "[gwa]">>) \o <<DotStar>>
            \o LitI(<<"[eol]", "[ma]", "[in]", "[ga]">>)>>],
    [t |-> "algorithm_analysis", ps |-> <<
        LitI(<<"[al]", "[go]", "[ri]", "[jeum]">>) \o <<DotStar>>
            \o LitI(<<"[bok]", "[jap]", "[do]">>) \o <<DotStar>>
            \o LitI(<<"[bun]", "[seok]">>),
        LitI(<<"[si]", "[gan]", "[bok]", "[jap]", "[do]">>) \o <<DotStar>>
            \o LitI(<<"[gong]", "[gan]", "[bok]", "[jap]", "[do]">>),
        LitI(<<"B", "i", "g", "-", "O">>) \o <<DotStar>>
            \o LitI(<<"[pyo]", "[gi]", "[beop]">>),
        LitI(<<"[seong]", "[neung]">>) \o <<DotStar>>
            \o LitI(<<"[bun]", "[seok]">>)>>],
    [t |-> "data_structure", ps |-> <<
        LitI(<<"[ja]", "[ryo]", "[gu]", "[jo]">>) \o <<DotStar>>
            \o LitI(<<"[teuk]", "[jing]">>),
        LitI(<<"[seu]", "[taek]">>) \o <<DotStar>> \o LitI(<<"[kyu]">>)
            \o <<DotStar>> \o LitI(<<"[teu]", "[ri]">>) \o <<DotStar>>
            \o LitI(<<"[geu]", "[rae]", "[peu]">>),
        LitI(<<"[bae]", "[yeol]">>) \o <<DotStar>>
            \o LitI(<<"[ri]", "[seu]", "[teu]">>) \o <<DotStar>>
            \o LitI(<<"[bun]", "[seok]">>)>>],
    [t |-> "fill_blank", ps |-> <<
        LitI(<<"[da]", "[eum]", "SP", "[bin]", "SP", "[kan]", "[e]">>)
            \o <<DotStar>> \o LitI(<<"[al]", "[maj]", "[eun]">>)
            \o <<DotStar>> \o LitI(<<"[geos]", "[eun]", "?">>),
        LitI(<<"[bin]", "[kan]", "[e]">>) \o <<DotStar>>
            \o LitI(<<"[deul]", "[eo]", "[gal]">>) \o <<DotStar>>
            \o LitI(<<"[mal]", "[eun]", "?">>),
        LitI(<<"(">>) \o <<Star(Space)>> \o LitI(<<")">>) \o <<Star(Space)>>
            \o LitI(<<"[e]">>) \o <<DotStar>>
            \o LitI(<<"[al]", "[maj]", "[eun]">>),
        LitI(<<"_", "_", "_", "_", "_", "_", "[e]">>) \o <<DotStar>>
            \o LitI(<<"[jeok]", "[jeol]", "[han]">>)>>],
    [t |-> "short_answer", ps |-> <<
        LitI(<<"[da]", "[eum]", "[eul]">>) \o <<DotStar>>
            \o LitI(<<"[gan]", "[dan]", "[hi]">>) \o <<DotStar>>
            \o LitI(<<"[seo]", "[sul]", "[ha]", "[si]", "[o]">>),
        <<DotStar>> \o LitI(<<"[eul]", "(", "[reul]", ")">>) \o <<DotStar>>
            \o LitI(<<"[sseu]", "[si]", "[o]">>),
        <<DotStar>> \o LitI(<<"[dap]", "[ha]", "[si]", "[o]", ".">>),
        <<DotStar>> \o LitI(<<"[dan]", "[dap]">>) \o <<DotStar>>
            \o LitI(<<"[seo]", "[sul]">>)>>],
    [t |-> "essay", ps |-> <<
        LitI(<<"[da]", "[eum]", "[eul]">>) \o <<DotStar>>
            \o LitI(<<"[ja]", "[se]", "[hi]">>) \o <<DotStar>>
            \o LitI(<<"[seol]", "[myeong]", "[ha]", "[si]", "[o]">>),
        <<DotStar>> \o LitI(<<"[non]", "[sul]", "[ha]", "[si]", "[o]">>),
        <<DotStar>> \o LitI(<<"[seo]", "[sul]", "[ha]", "[si]", "[o]", ".">>),
        <<DotStar>>
            \o LitI(<<"[gi]", "[sul]", "[ha]", "[si]", "[o]", ".">>)>>],
    [t |-> "calculation", ps |-> <<
        LitI(<<"[da]", "[eum]", "[eul]">>) \o <<DotStar>>
            \o LitI(<<"[gye]", "[san]", "[ha]", "[si]", "[o]">>),
        <<DotStar>> \o LitI(<<"[gaps]", "[eul]">>) \o <<DotStar>>
            \o LitI(<<"[gu]", "[ha]", "[si]", "[o]">>),
        <<DotStar>> \o LitI(<<"[gye]", "[san]">>) \o <<DotStar>>
            \o LitI(<<"[gwa]", "[jeong]">>) \o <<DotStar>>
            \o LitI(<<"[sseu]", "[si]", "[o]">>),
        <<Plus(Digits)>> \o <<DotStar>> \o LitI(<<"+">>) \o <<DotStar>>
            \o <<Plus(Digits)>> \o <<DotStar>> \o LitI(<<"=">>) \o <<DotStar>>
            \o LitI(<<"?">>)>>],
    [t |-> "sequence", ps |-> <<
        LitI(<<"[da]", "[eum]">>) \o <<DotStar>> \o LitI(<<"[sun]", "[seo]">>)
            \o <<DotStar>> \o LitI(<<"[bae]", "[yeol]">>),
        LitI(<<"[ol]", "[ba]", "[reun]">>) \o <<DotStar>>
            \o LitI(<<"[sun]", "[seo]", "[neun]", "?">>),
        LitI(<<"[ga]">>) \o <<DotStar>> \o LitI(<<"[na]">>) \o <<DotStar>>
            \o LitI(<<"[da]">>) \o <<DotStar>> \o LitI(<<"[ra]">>)
            \o <<DotStar>> \o LitI(<<"[sun]", "[seo]">>)>>],
    [t |-> "diagram_matching", ps |-> <<
        LitI(<<"[da]", "[eum]">>) \o <<DotStar>> \o LitI(<<"[do]", "[sik]">>)
            \o <<DotStar>> \o LitI(<<"[geu]", "[rim]">>) \o <<DotStar>>
            \o LitI(<<"[yeon]", "[gyeol]">>),
        LitI(<<"[peul]", "[ro]", "[cha]", "[teu]">>) \o <<DotStar>>
            \o LitI(<<"[peu]", "[ro]", "[se]", "[seu]">>) \o <<DotStar>>
            \o LitI(<<"[yeon]", "[gyeol]">>),
        LitI(<<"[da]", "[i]", "[eo]", "[geu]", "[raem]">>) \o <<DotStar>>
            \o LitI(<<"[heu]", "[reum]">>) \o <<DotStar>>
            \o LitI(<<"[yeon]", "[gyeol]">>),
        LitI(<<"(", "[ga]", ")">>) \o <<DotStar>>
            \o LitI(<<"(", "[na]", ")">>) \o <<DotStar>>
            \o LitI(<<"(", "[da]", ")">>) \o <<DotStar>>
            \o LitI(<<"[yeon]", "[gyeol]">>),
        LitI(<<"[gwa]", "[jeong]", "[eul]">>) \o <<DotStar>>
            \o LitI(<<"[pyo]", "[hyeon]", "[han]">>) \o <<DotStar>>
            \o LitI(<<"[geos]">>) \o <<DotStar>>
            \o LitI(<<"[yeon]", "[gyeol]">>),
        LitI(<<"[in]", "[seu]", "[pek]", "[syeon]">>) \o <<DotStar>>
            \o LitI(<<"[gwa]", "[jeong]">>) \o <<DotStar>>
            \o LitI(<<"[pyo]", "[hyeon]">>) \o <<DotStar>>
            \o LitI(<<"[geos]">>)>>],
    [t |-> "flowchart_analysis", ps |-> <<
        LitI(<<"[da]", "[eum]">>) \o <<DotStar>>
            \o LitI(<<"[heu]", "[reum]", "[do]">>) \o <<DotStar>>
            \o LitI(<<"[bun]", "[seok]">>),
        LitI(<<"[peul]", "[ro]", "[cha]", "[teu]">>) \o <<DotStar>>
            \o LitI(<<"[hae]", "[seok]">>),
        LitI(<<"[peu]", "[ro]", "[se]", "[seu]">>) \o <<DotStar>>
            \o LitI(<<"[da]", "[i]", "[eo]", "[geu]", "[raem]">>)
            \o <<DotStar>> \o LitI(<<"[bun]", "[seok]">>),
        LitI(<<"[sun]", "[seo]", "[do]">>) \o <<DotStar>>
            \o LitI(<<"[dan]", "[gye]">>) \o <<DotStar>>
            \o LitI(<<"[bun]", "[seok]">>)>>],
    [t |-> "concept_definition", ps |-> <<
        LitI(<<"[gae]", "[bal]">>) \o <<DotStar>>
            \o LitI(<<"[yeong]", "[yeok]">>) \o <<DotStar>>
            \o LitI(<<"[gyeol]", "[jeong]", "[ha]", "[neun]">>) \o <<DotStar>>
            \o LitI(<<"[yo]", "[so]">>),
        LitI(<<"[so]", "[peu]", "[teu]", "[we]", "[eo]">>) \o <<DotStar>>
            \o LitI(<<"[gae]", "[bal]">>) \o <<DotStar>>
            \o LitI(<<"[yeong]", "[yeok]">>),
        LitI(<<"[si]", "[seu]", "[tem]">>) \o <<DotStar>>
            \o LitI(<<"[gu]", "[seong]", "[yo]", "[so]">>) \o <<DotStar>>
            \o LitI(<<"[jeong]", "[ui]">>),
        <<DotStar>> \o LitI(<<"[jeong]", "[ui]">>) \o <<DotStar>>
            \o LitI(<<"[gae]", "[nyeom]">>) \o <<DotStar>>
            \o LitI(<<"[seol]", "[myeong]">>)>>],
    [t |-> "matching", ps |-> <<
        LitI(<<"[da]", "[eum]", "[eul]">>) \o <<DotStar>>
            \o LitI(<<"[yeon]", "[gyeol]", "[ha]", "[si]", "[o]">>),
        <<DotStar>> \o LitI(<<"[gwa]">>) \o <<DotStar>> \o LitI(<<"[reul]">>)
            \o <<DotStar>>
            \o LitI(<<"[jjak]", "[ji]", "[eu]", "[si]", "[o]">>),
        LitI(<<"[ga]">>) \o <<DotStar>> \o LitI(<<"[wa]">>) \o <<DotStar>>
            \o LitI(<<"[na]">>) \o <<DotStar>> \o LitI(<<"[reul]">>)
            \o <<DotStar>> \o LitI(<<"[yeon]", "[gyeol]">>),
        LitI(<<"(", "[ga]", ")">>) \o <<DotStar>> \o LitI(<<"-">>)
            \o <<DotStar>> \o LitI(<<"[jamo-g]">>),
        LitI(<<"(", "[na]", ")">>) \o <<DotStar>> \o LitI(<<"-">>)
            \o <<DotStar>> \o LitI(<<"[jamo-n]">>)>>],
    [t |-> "case_analysis", ps |-> <<
        LitI(<<"[da]", "[eum]">>) \o <<DotStar>> \o LitI(<<"[sa]", "[rye]">>)
            \o <<DotStar>> \o LitI(<<"[bun]", "[seok]">>),
        LitI(<<"[sang]", "[hwang]">>) \o <<DotStar>>
            \o LitI(<<"[e]", "[seo]">>) \o <<DotStar>>
            \o LitI(<<"[hae]", "[gyeol]", "[bang]", "[an]">>),
        LitI(<<"[mun]", "[je]", "[sang]", "[hwang]">>) \o <<DotStar>>
            \o LitI(<<"[dae]", "[cheo]", "[bang]", "[an]">>)>>]
    >>


\* special_keywords: per category, its keywords
SpecialKeywords ==
    <<
    [t |-> "tree_analysis", ws |-> <<
        <<"[teu]", "[ri]">>, <<"F", "a", "n", "-", "I", "n">>,
        <<"F", "a", "n", "-", "O", "u", "t">>, <<"[no]", "[deu]">>,
        <<"[geu]", "[rae]", "[peu]">>>>],
    [t |-> "code_execution", ws |-> <<
        <<"J", "a", "v", "a">>, <<"p", "u", "b", "l", "i", "c">>,
        <<"c", "l", "a", "s", "s">>, <<"m", "a", "i", "n">>,
        <<"[ko]", "[deu]">>, <<"[sil]", "[haeng]">>, <<"[gyeol]", "[gwa]">>>>],
    [t |-> "algorithm_analysis", ws |-> <<
        <<"[al]", "[go]", "[ri]", "[jeum]">>, <<"[bok]", "[jap]", "[do]">>,
        <<"B", "i", "g", "-", "O">>,
        <<"[si]", "[gan]", "[bok]", "[jap]", "[do]">>>>],
    [t |-> "data_structure", ws |-> <<
        <<"[seu]", "[taek]">>, <<"[kyu]">>, <<"[bae]", "[yeol]">>,
        <<"[ri]", "[seu]", "[teu]">>, <<"[ja]", "[ryo]", "[gu]", "[jo]">>>>],
    [t |-> "diagram_matching", ws |-> <<
        <<"[geu]", "[rim]">>, <<"[do]", "[sik]">>, <<"[cha]", "[teu]">>,
        <<"[heu]", "[reum]", "[do]">>,
        <<"[peul]", "[ro]", "[cha]", "[teu]">>,
        <<"[da]", "[i]", "[eo]", "[geu]", "[raem]">>>>]
    >>

RECURSIVE SumSeq(_)
SumSeq(s) == IF s = <<>> THEN 0 ELSE Head(s) + SumSeq(Tail(s))

\* counts[k] for one category: the sum of text.count(w) over its keywords
KeywordHits(t, ws) == SumSeq([j \in 1..Len(ws) |-> StrCount(t, ws[j])])

\* counts, in the order of keys
SimpleCounts(t) == [k \in 1..Len(Keys) |-> KeywordHits(t, Keys[k].ws)]

FloorWeightNone(v, total) == Frac(v, total)

\* max(v / total, 0.05)
FloorWeight(v, total) == IF 20 * v >= total THEN Frac(v, total) ELSE Frac(1, 20)

\* analyze_question_types of question_generator.py
AnalyzeSimple(t) ==
    LET counts == SimpleCounts(t)
        total == SumSeq(counts)
    IN IF total = 0 THEN <<[t |-> "multiple_choice", r |-> Frac(1, 1)]>>
       ELSE [k \in 1..Len(Keys) |->
                [t |-> Keys[k].t, r |-> FloorWeight(counts[k], total)]]

\* the sum of len(re.findall(pattern, text, re.IGNORECASE)) over the patterns
PatternHits(t, ps) == SumSeq([j \in 1..Len(ps) |-> Len(FindAll(<<ps[j]>>, t))])

\* 2 for every special keyword of the category that occurs in the text
KeywordBonus(t, cat) ==
    SumSeq([k \in 1..Len(SpecialKeywords) |->
        IF SpecialKeywords[k].t # cat THEN 0
        ELSE SumSeq([j \in 1..Len(SpecialKeywords[k].ws) |->
                 IF Contains(t, SpecialKeywords[k].ws[j]) THEN 2 ELSE 0])])

\* type_counts, in the order of question_patterns
ExtendedCounts(t) ==
    [k \in 1..Len(QuestionPatterns) |->
        PatternHits(t, QuestionPatterns[k].ps) + KeywordBonus(t, QuestionPatterns[k].t)]

\* the distribution returned when nothing matched
ExtendedDefault ==
    <<[t |-> "multiple_choice", r |-> Frac(8, 10)],
      [t |-> "tree_analysis", r |-> Frac(1, 10)],
      [t |-> "code_execution", r |-> Frac(1, 10)]>>

\* analyze_question_types of question_generator_gpt4o.py.  With
\* total = total_matches, max(count / total, 0.03) is a[k] / (100 * total)
\* for a[k] = max(100 * count, 3 * total); total_ratio is their sum over
\* 100 * total, and the returned weight a[k] / sum(a).
AnalyzeExtended(t) ==
    LET counts == ExtendedCounts(t)
        total == SumSeq(counts)
        a == [k \in 1..Len(counts) |-> Max(100 * counts[k], 3 * total)]
    IN IF total = 0 THEN ExtendedDefault
       ELSE [k \in 1..Len(counts) |->
                [t |-> QuestionPatterns[k].t, r |-> Frac(a[k], SumSeq(a))]]

\* the words the classified texts are made of
ClsWords ==
    {<<"[teu]", "[ri]">>, <<"[kyu]">>, <<"[seong]", "[neung]">>,
     <<"[bun]", "[seok]">>, <<"LF">>, <<"x">>}

RECURSIVE Flatten(_)
Flatten(ss) == IF ss = <<>> THEN <<>> ELSE Head(ss) \o Flatten(Tail(ss))

ClsInit ==
    /\ pc = "cls_start"
    /\ \E ws \in SeqsUpTo(ClsWords, MaxWords) : ctext = Flatten(ws)
    /\ simple_ratios = <<>> /\ gpt4o_ratios = <<>>
    /\ AllocIdle /\ NormIdle /\ PostIdle /\ MixedIdle /\ PipeIdle /\ SingleIdle

ClsAnalyzeSimple ==
    /\ pc = "cls_start"
    /\ simple_ratios' = AnalyzeSimple(ctext)
    /\ pc' = "cls_simple"
    /\ UNCHANGED <<ctext, gpt4o_ratios>>
    /\ UNCHANGED notClsVars

ClsAnalyzeExtended ==
    /\ pc = "cls_simple"
    /\ gpt4o_ratios' = AnalyzeExtended(ctext)
    /\ pc' = "cls_done"
    /\ UNCHANGED <<ctext, simple_ratios>>
    /\ UNCHANGED notClsVars

ClsNext == ClsAnalyzeSimple \/ ClsAnalyzeExtended

SpecCls == ClsInit /\ [][ClsNext]_vars

(***************************************************************************)
(* Claims about the classifier (checked under SpecCls).                    *)
(***************************************************************************)
SimpleDone == pc \in {"cls_simple", "cls_done"}

ExtendedDone == pc = "cls_done"

SimpleTotal == SumSeq(SimpleCounts(ctext))

ExtendedTotal == SumSeq(ExtendedCounts(ctext))

\* a distribution of exactly one category, multiple_choice, of weight 1.0
IsSingleDefault(d) ==
    /\ Len(d) = 1
    /\ d[1].t = "multiple_choice"
    /\ d[1].r.num = d[1].r.den

\* C7: in both implementations, a text with no hit (the empty text too) is
\* given exactly one category, multiple_choice, of weight 1.0.
C7_DegenerateSingle ==
    /\ (SimpleDone /\ SimpleTotal = 0) => IsSingleDefault(simple_ratios)
    /\ (ExtendedDone /\ ExtendedTotal = 0) => IsSingleDefault(gpt4o_ratios)

\* C8: with at least one keyword hit, question_generator.py returns every
\* keyword category, each with weight exactly max(count / total, 0.05), so
\* >= 0.05.
C8_SimpleFloor ==
    SimpleDone =>
        LET counts == SimpleCounts(ctext)
            total == SumSeq(counts)
        IN total > 0 =>
            /\ Len(simple_ratios) = Len(Keys)
            /\ \A k \in 1..Len(Keys) :
                  LET w == simple_ratios[k].r
                  IN /\ simple_ratios[k].t = Keys[k].t
                     /\ 20 * w.num >= w.den
                     /\ (20 * counts[k] >= total) => w.num * total = counts[k] * w.den
                     /\ (20 * counts[k] < total) => 20 * w.num = w.den

\* C8 witness: a text with hits where one category has no hit (the floor
\* applies) and another has a proportional weight above the floor.
C8_Witness ==
    /\ SimpleDone
    /\ LET counts == SimpleCounts(ctext)
           total == SumSeq(counts)
       IN /\ total > 0
          /\ \E k \in 1..Len(Keys) :
                counts[k] = 0 /\ simple_ratios[k].r = Frac(1, 20)
          /\ \E k \in 1..Len(Keys) :
                20 * counts[k] > total /\ counts[k] < total

\* C9: with at least one hit, the weights question_generator_gpt4o.py returns
\* sum to 1 and every one of them is >= 0.03.
C9_FloorAfterRenormalize ==
    (ExtendedDone /\ ExtendedTotal > 0) =>
        /\ \A k \in 1..Len(gpt4o_ratios) : gpt4o_ratios[k].r.den = gpt4o_ratios[1].r.den
        /\ SumSeq([k \in 1..Len(gpt4o_ratios) |-> gpt4o_ratios[k].r.num])
              = gpt4o_ratios[1].r.den
        /\ \A k \in 1..Len(gpt4o_ratios) :
              100 * gpt4o_ratios[k].r.num >= 3 * gpt4o_ratios[k].r.den

(***************************************************************************)
(* Strings of the source, as character sequences.                          *)
(***************************************************************************)
S_public == <<"p", "u", "b", "l", "i", "c">>

S_class == <<"c", "l", "a", "s", "s">>

S_static == <<"s", "t", "a", "t", "i", "c">>

S_void == <<"v", "o", "i", "d">>

S_main == <<"m", "a", "i", "n">>

S_include == <<"#", "i", "n", "c", "l", "u", "d", "e">>

S_for == <<"f", "o", "r">>

S_if == <<"i", "f">>

S_while == <<"w", "h", "i", "l", "e">>

S_create == <<"c", "r", "e", "a", "t", "e">>

S_table == <<"t", "a", "b", "l", "e">>

S_select == <<"s", "e", "l", "e", "c", "t">>

S_from == <<"f", "r", "o", "m">>

S_def == <<"d", "e", "f">>

S_import == <<"i", "m", "p", "o", "r", "t">>

S_int == <<"i", "n", "t">>

S_java == <<"j", "a", "v", "a">>

S_sql == <<"s", "q", "l">>

S_python == <<"p", "y", "t", "h", "o", "n">>

S_c == <<"c">>

\* the fence delimiter, three backticks
Backticks == <<"BT", "BT", "BT">>

\* meta_labels: yeonsan (operation), jogeon (condition), yesi (example),
\* seolmyeong (explanation), chamgo (reference)
MetaLabels ==
    <<(<<"[yeon]", "[san]">>), (<<"[jo]", "[geon]">>), (<<"[ye]", "[si]">>),
      (<<"[seol]", "[myeong]">>), (<<"[cham]", "[go]">>)>>

(***************************************************************************)
(* guess_lang(code).                                                       *)
(***************************************************************************)
\* create\s+table|select\s+.+\s+from
SqlRe ==
    <<LitI(S_create) \o <<Plus(Space)>> \o LitI(S_table),
      LitI(S_select) \o <<Plus(Space), DotPlus, Plus(Space)>> \o LitI(S_from)>>

\* \bdef\b|\bimport\b
PythonRe ==
    <<(<<WordB>> \o Lit(S_def) \o <<WordB>>),
      (<<WordB>> \o Lit(S_import) \o <<WordB>>)>>

\* #include\s*<|int\s+main\s*\(
CRe ==
    <<Lit(S_include) \o <<Star(Space), One({"<"})>>,
      Lit(S_int) \o <<Plus(Space)>> \o Lit(S_main) \o <<Star(Space), One({"("})>>>>

GuessLang(code) ==
    LET c == Lower(code)
    IN IF Contains(c, S_public \o <<"SP">> \o S_class)
          \/ Contains(c, S_static \o <<"SP">> \o S_void \o <<"SP">> \o S_main)
       THEN S_java
       ELSE IF Search(SqlRe, c) THEN S_sql
       ELSE IF Search(PythonRe, c) THEN S_python
       ELSE IF Search(CRe, c) THEN S_c
       ELSE <<>>

(***************************************************************************)
(* Text Normalizer: preprocess_text(raw).                                  *)
(***************************************************************************)
RECURSIVE ReplaceCRLF(_)
\* raw.replace("\r\n", "\n")
ReplaceCRLF(t) ==
    IF t = <<>> THEN <<>>
    ELSE IF Len(t) >= 2 /\ t[1] = "CR" /\ t[2] = "LF"
         THEN <<"LF">> \o ReplaceCRLF(SubSeq(t, 3, Len(t)))
         ELSE <<t[1]>> \o ReplaceCRLF(Tail(t))

\* .replace("\r", "\n")
ReplaceCR(t) == [j \in 1..Len(t) |-> IF t[j] = "CR" THEN "LF" ELSE t[j]]

\* step 0: unify the line endings
UnifyNewlines(t) == ReplaceCR(ReplaceCRLF(t))

\* \n?\s*\d+\s*/\s*\d+\s*\n
PageRe ==
    <<(<<Opt({"LF"}), Star(Space), Plus(Digits), Star(Space), One({"/"}),
         Star(Space), Plus(Digits), Star(Space), One({"LF"})>>)>>

\* step 1: re.sub(r"\n?\s*\d+\s*/\s*\d+\s*\n", "\n", text)
RemovePageNumbers(t) == SubConst(PageRe, <<"LF">>, t)

\* \n{3,}
BlankRunRe == <<(<<One({"LF"}), One({"LF"}), Plus({"LF"})>>)>>

CollapseNothing(t) == t

\* re.sub(r"\n{3,}", "\n\n", text)
CollapseBlankRuns(t) == SubConst(BlankRunRe, <<"LF", "LF">>, t)

\* (\w)-\n(\w)
HyphenRe == <<(<<One(WordChars), One({"-"}), One({"LF"}), One(WordChars)>>)>>

\* step 2: re.sub(r"(\w)-\n(\w)", r"\1\2", text)
JoinHyphenWraps(t) ==
    LET spans == FindAll(HyphenRe, t)
    IN SubSpans(t, spans,
                [m \in 1..Len(spans) |-> <<t[spans[m][1]], t[spans[m][1] + 3]>>], 1, 1)

\* ([A-Za-z0-9_])\n\(
CallRe == <<(<<One(AsciiWord), One({"LF"}), One({"("})>>)>>

\* re.sub(r"([A-Za-z0-9_])\n\(", r"\1(", text)
JoinCallWraps(t) ==
    LET spans == FindAll(CallRe, t)
    IN SubSpans(t, spans, [m \in 1..Len(spans) |-> <<t[spans[m][1]], "(">>], 1, 1)

\* ^(label)\s*[:(fullwidth colon)]\s*  under re.MULTILINE
MetaLineRe ==
    [a \in 1..Len(MetaLabels) |->
        <<Bol>> \o Lit(MetaLabels[a])
            \o <<Star(Space), One({":", "[fwcolon]"}), Star(Space)>>]

\* step 3a: re.sub(rf"^{meta_labels}\s*[:...]\s*", r"\1: ", text, re.MULTILINE)
NormalizeMetaLines(t) ==
    LET spans == FindAll(MetaLineRe, t)
    IN SubSpans(t, spans,
                [m \in 1..Len(spans) |->
                    SubSeq(t, spans[m][1], spans[m][1] + 1) \o <<":", "SP">>], 1, 1)

\* \s+(label):\s*
MetaMidRe ==
    [a \in 1..Len(MetaLabels) |->
        <<Plus(Space)>> \o Lit(MetaLabels[a]) \o <<One({":"}), Star(Space)>>]

\* step 3b: re.sub(rf"\s+{meta_labels}:\s*", r"\n\1: ", text); the label
\* starts where the leading whitespace run ends
SplitMetaLabels(t) ==
    LET spans == FindAll(MetaMidRe, t)
    IN SubSpans(t, spans,
                [m \in 1..Len(spans) |->
                    LET s == RunEnd(Plus(Space), t, spans[m][1])
                    IN <<"LF">> \o SubSeq(t, s, s + 1) \o <<":", "SP">>], 1, 1)

RECURSIVE SplitLines(_)
\* text.split("\n")
SplitLines(t) ==
    IF \A j \in 1..Len(t) : t[j] # "LF" THEN <<t>>
    ELSE LET k == CHOOSE j \in 1..Len(t) :
                    t[j] = "LF" /\ \A m \in 1..(j - 1) : t[m] # "LF"
         IN <<SubSeq(t, 1, k - 1)>> \o SplitLines(SubSeq(t, k + 1, Len(t)))

RECURSIVE JoinLines(_)
\* "\n".join(ls)
JoinLines(ls) ==
    IF ls = <<>> THEN <<>>
    ELSE IF Len(ls) = 1 THEN ls[1]
    ELSE ls[1] \o <<"LF">> \o JoinLines(Tail(ls))

RECURSIVE StripNewlinesLeft(_)
StripNewlinesLeft(t) ==
    IF t # <<>> /\ Head(t) = "LF" THEN StripNewlinesLeft(Tail(t)) ELSE t

RECURSIVE StripNewlinesRight(_)
StripNewlinesRight(t) ==
    IF t # <<>> /\ t[Len(t)] = "LF"
    THEN StripNewlinesRight(SubSeq(t, 1, Len(t) - 1)) ELSE t

\* s.strip("\n")
StripNewlines(t) == StripNewlinesRight(StripNewlinesLeft(t))

\* s.endswith(w)
EndsWith(t, w) == Len(t) >= Len(w) /\ SubSeq(t, Len(t) - Len(w) + 1, Len(t)) = w

\* code_start_re
CodeStartRe ==
    <<Lit(S_public) \o <<Plus(Space)>> \o Lit(S_class),
      Lit(S_static) \o <<Plus(Space)>> \o Lit(S_void) \o <<Plus(Space)>> \o Lit(S_main),
      Lit(S_include) \o <<Star(Space), One({"<"})>>,
      <<Bos, Star(Space)>> \o Lit(S_for) \o <<Star(Space), One({"("})>>,
      <<Bos, Star(Space)>> \o Lit(S_if) \o <<Star(Space), One({"("})>>,
      <<Bos, Star(Space)>> \o Lit(S_while) \o <<Star(Space), One({"("})>>,
      <<One({";"}), Star(Space), Eos>>,
      <<One({"{"}), Star(Space), Eos>>>>

\* the condition of the first branch of the scan: the line starts or
\* continues code
IsCodeLine(line) ==
    \/ Search(CodeStartRe, line)
    \/ EndsWith(Strip(line), <<"{">>)
    \/ EndsWith(Strip(line), <<"}", ";">>)

ContinuesNever(line) == FALSE

\* the condition (besides in_code) of the second branch: the line ends with
\* ; } or {
ContinuesCode(line) ==
    \/ EndsWith(Strip(line), <<";">>)
    \/ EndsWith(Strip(line), <<"}">>)
    \/ EndsWith(Strip(line), <<"{">>)

\* ^(label):
MetaStartRe ==
    [a \in 1..Len(MetaLabels) |-> <<Bos>> \o Lit(MetaLabels[a]) \o <<One({":"})>>]

\* re.match(rf"^{meta_labels}:", line)
IsMetaLine(line) == AltMatchEnd(MetaStartRe, 1, line, 1) # 0

\* the fenced block flush_code appends for a non-empty buffer
Fence(buf) ==
    LET block == StripNewlines(JoinLines(buf))
    IN Backticks \o GuessLang(block) \o <<"LF">> \o block \o <<"LF">>
       \o Backticks \o <<"LF">>

\* a flush without the test of the buffer
FlushedUnguarded(o, buf) == Append(o, Fence(buf))

\* out after flush_code()
Flushed(o, buf) == IF buf # <<>> THEN Append(o, Fence(buf)) ELSE o

\* [ \t]+\n
TrailRe == <<(<<Plus({"SP", "TAB"}), One({"LF"})>>)>>

\* step 5: re.sub(r"[ \t]+\n", "\n", text)
StripTrailingBlanks(t) == SubConst(TrailRe, <<"LF">>, t)

\* the parts the normalized texts are made of: code and blank lines, ...
NormPartsCode == {<<"LF">>, <<"SP">>, <<";">>, <<"a">>, <<"}">>, <<"CR">>}

\* ... line wraps and page numbers, ...
NormPartsWrap ==
    {<<"LF">>, <<"SP">>, <<"a">>, <<"a", "-">>, <<"(">>, <<"1", "/", "2">>}

\* ... and metadata labels
NormPartsMeta == {<<"LF">>, <<"SP">>, <<";">>, <<":">>, <<"[yeon]", "[san]">>}

\* the text of the end-to-end scenario
ScenarioLine1 ==
    <<"[yeon]", "[san]", ":", "SP", "p", "u", "s", "h", ",", "SP", "p", "o", "p">>

ScenarioLine2 ==
    <<"p", "u", "b", "l", "i", "c", "SP", "c", "l", "a", "s", "s", "SP",
      "T", "e", "s", "t", "SP", "{">>

ScenarioLine3 == <<"SP", "SP", "i", "n", "t", "SP", "x", "SP", "=", "SP", "1", ";">>

ScenarioLine4 == <<"}">>

ScenarioLine5 == <<"[yeon]", "[san]", ":", "SP", "[gye]", "[sok]">>

ScenarioText ==
    JoinLines(<<ScenarioLine1, ScenarioLine2, ScenarioLine3, ScenarioLine4,
                ScenarioLine5>>)

NormTexts ==
    {Flatten(ps) : ps \in SeqsUpTo(NormPartsCode, MaxParts)}
        \cup {Flatten(ps) : ps \in SeqsUpTo(NormPartsWrap, MaxParts)}
        \cup {Flatten(ps) : ps \in SeqsUpTo(NormPartsMeta, MaxParts)}
        \cup {ScenarioText}

NormInit ==
    /\ pc = "norm_start"
    /\ raw \in NormTexts
    /\ text = <<>> /\ lines = <<>> /\ li = 0
    /\ code_buf = <<>> /\ nout = <<>> /\ in_code = FALSE
    /\ result = <<>> /\ pass = 1 /\ first = <<>>
    /\ AllocIdle /\ ClsIdle /\ PostIdle /\ MixedIdle /\ PipeIdle /\ SingleIdle

\* a step that rewrites text and moves on
TextStep(from, to, new) ==
    /\ pc = from
    /\ text' = new
    /\ pc' = to
    /\ UNCHANGED <<raw, lines, li, code_buf, nout, in_code, result, pass, first>>
    /\ UNCHANGED notNormVars

\* if not raw: return ""
NormEmpty ==
    /\ pc = "norm_start"
    /\ raw = <<>>
    /\ result' = <<>>
    /\ pc' = "norm_done"
    /\ UNCHANGED <<raw, text, lines, li, code_buf, nout, in_code, pass, first>>
    /\ UNCHANGED notNormVars

NormUnify == raw # <<>> /\ TextStep("norm_start", "norm_page", UnifyNewlines(raw))

NormPage == TextStep("norm_page", "norm_collapse", RemovePageNumbers(text))

NormCollapse == TextStep("norm_collapse", "norm_hyphen", CollapseBlankRuns(text))

NormHyphen == TextStep("norm_hyphen", "norm_call", JoinHyphenWraps(text))

NormCall == TextStep("norm_call", "norm_meta", JoinCallWraps(text))

NormMetaLines == TextStep("norm_meta", "norm_meta_mid", NormalizeMetaLines(text))

NormSplitMeta == TextStep("norm_meta_mid", "norm_split", SplitMetaLabels(text))

NormSplit ==
    /\ pc = "norm_split"
    /\ lines' = SplitLines(text)
    /\ code_buf' = <<>>
    /\ nout' = <<>>
    /\ in_code' = FALSE
    /\ li' = 1
    /\ pc' = "norm_scan"
    /\ UNCHANGED <<raw, text, result, pass, first>>
    /\ UNCHANGED notNormVars

\* line = ln.rstrip()
CurrentLine == RStrip(lines[li])

Scanning == pc = "norm_scan" /\ li <= Len(lines)

ScanFrame ==
    /\ li' = li + 1
    /\ UNCHANGED <<pc, raw, text, lines, result, pass, first>>
    /\ UNCHANGED notNormVars

\* the line starts or continues code: buffer it
ScanCode ==
    /\ Scanning
    /\ IsCodeLine(CurrentLine)
    /\ in_code' = TRUE
    /\ code_buf' = Append(code_buf, CurrentLine)
    /\ UNCHANGED nout
    /\ ScanFrame

\* a continuation step that does not buffer the line
ScanContinueLost ==
    /\ Scanning
    /\ ~IsCodeLine(CurrentLine)
    /\ in_code /\ ContinuesCode(CurrentLine)
    /\ UNCHANGED <<code_buf, nout, in_code>>
    /\ ScanFrame

\* already in code, and the line ends with ; } or {: keep buffering
ScanContinue ==
    /\ Scanning
    /\ ~IsCodeLine(CurrentLine)
    /\ in_code /\ ContinuesCode(CurrentLine)
    /\ code_buf' = Append(code_buf, CurrentLine)
    /\ UNCHANGED <<nout, in_code>>
    /\ ScanFrame

\* a metadata line: flush the code, then emit the line
ScanMeta ==
    /\ Scanning
    /\ ~IsCodeLine(CurrentLine)
    /\ ~(in_code /\ ContinuesCode(CurrentLine))
    /\ IsMetaLine(CurrentLine)
    /\ nout' = Append(Flushed(nout, code_buf), CurrentLine)
    /\ code_buf' = <<>>
    /\ in_code' = FALSE
    /\ ScanFrame

\* a plain line: flush the code if in code, then emit the line
ScanPlain ==
    /\ Scanning
    /\ ~IsCodeLine(CurrentLine)
    /\ ~(in_code /\ ContinuesCode(CurrentLine))
    /\ ~IsMetaLine(CurrentLine)
    /\ nout' = Append(IF in_code THEN Flushed(nout, code_buf) ELSE nout, CurrentLine)
    /\ code_buf' = IF in_code THEN <<>> ELSE code_buf
    /\ in_code' = FALSE
    /\ ScanFrame

\* end of input: flush_code(), then text = "\n".join(out)
NormJoin ==
    /\ pc = "norm_scan"
    /\ li > Len(lines)
    /\ nout' = Flushed(nout, code_buf)
    /\ code_buf' = <<>>
    /\ text' = JoinLines(Flushed(nout, code_buf))
    /\ pc' = "norm_trail"
    /\ UNCHANGED <<raw, lines, li, in_code, result, pass, first>>
    /\ UNCHANGED notNormVars

NormTrail == TextStep("norm_trail", "norm_collapse2", StripTrailingBlanks(text))

NormCollapse2 == TextStep("norm_collapse2", "norm_strip", CollapseBlankRuns(text))

\* return text.strip()
NormStrip ==
    /\ pc = "norm_strip"
    /\ result' = Strip(text)
    /\ pc' = "norm_done"
    /\ UNCHANGED <<raw, text, lines, li, code_buf, nout, in_code, pass, first>>
    /\ UNCHANGED notNormVars

\* preprocess_text is called again on what it returned
NormAgain ==
    /\ pc = "norm_done"
    /\ pass = 1
    /\ first' = result
    /\ raw' = result
    /\ pass' = 2
    /\ text' = <<>> /\ lines' = <<>> /\ li' = 0
    /\ code_buf' = <<>> /\ nout' = <<>> /\ in_code' = FALSE
    /\ result' = <<>>
    /\ pc' = "norm_start"
    /\ UNCHANGED notNormVars

NormNext ==
    \/ NormEmpty \/ NormUnify \/ NormPage \/ NormCollapse \/ NormHyphen
    \/ NormCall \/ NormMetaLines \/ NormSplitMeta \/ NormSplit
    \/ ScanCode \/ ScanContinue \/ ScanMeta \/ ScanPlain
    \/ NormJoin \/ NormTrail \/ NormCollapse2 \/ NormStrip \/ NormAgain

SpecNorm == NormInit /\ [][NormNext]_vars

(***************************************************************************)
(* Properties of the Text Normalizer.                                      *)
(***************************************************************************)
NormDone == pc = "norm_done"

\* t holds three consecutive newline characters
HasTripleNewline(t) ==
    \E j \in 1..(Len(t) - 2) : t[j] = "LF" /\ t[j + 1] = "LF" /\ t[j + 2] = "LF"

\* t holds the fence delimiter
HasFence(t) == Contains(t, Backticks)

\* C4: preprocess_text(preprocess_text(x)) = preprocess_text(x) for every
\* text x: the second pass returns what the first pass returned.
C4_Idempotent == (NormDone /\ pass = 2) => result = first

\* C5: the text preprocess_text returns never holds three or more consecutive
\* newline characters, fenced blocks of the line scanner included.
C5_NoTripleNewline == NormDone => ~HasTripleNewline(result)

\* a first pass has returned, the scanner emitted a fenced block, and the
\* joined output held a run of three newlines before the final collapse
C5_Witness ==
    /\ NormDone /\ pass = 1
    /\ \E k \in 1..Len(nout) : HasFence(nout[k])
    /\ HasTripleNewline(JoinLines(nout))
    /\ HasFence(result)

\* the languages guess_lang can return
FenceTags == {<<>>, S_java, S_sql, S_python, S_c}

\* C6: the five-line scenario text normalizes to the first metadata line, one
\* fenced block (tagged or not) holding the three class lines in order, and
\* the second metadata line, the metadata lines outside the fence, with no
\* run of three or more newlines.
C6_Scenario ==
    (NormDone /\ pass = 1 /\ raw = ScenarioText) =>
        /\ \E tag \in FenceTags : \E gap \in {<<"LF">>, <<"LF", "LF">>} :
              result = ScenarioLine1 \o <<"LF">>
                         \o Backticks \o tag \o <<"LF">>
                         \o ScenarioLine2 \o <<"LF">>
                         \o ScenarioLine3 \o <<"LF">>
                         \o ScenarioLine4 \o <<"LF">>
                         \o Backticks \o gap
                         \o ScenarioLine5
        /\ ~HasTripleNewline(result)

\* the scenario text has been normalized: the scanner emitted the metadata
\* line, one block of the three class lines, and the metadata line
C6_Witness ==
    /\ NormDone /\ pass = 1 /\ raw = ScenarioText
    /\ nout = <<ScenarioLine1,
                Fence(<<ScenarioLine2, ScenarioLine3, ScenarioLine4>>),
                ScenarioLine5>>
    /\ HasFence(result)

(***************************************************************************)
(* Question Postprocessor: strip_choice_prefix(s) and                      *)
(* postprocess_questions(questions).                                       *)
(*                                                                         *)
(* A question record (a dict) is a record whose field keys is the set of   *)
(* the dict's keys; the field of an absent key holds the empty value.      *)
(***************************************************************************)
\* the circled digits 1 to 20
CircledDigits ==
    {"[c1]", "[c2]", "[c3]", "[c4]", "[c5]", "[c6]", "[c7]", "[c8]", "[c9]",
     "[c10]", "[c11]", "[c12]", "[c13]", "[c14]", "[c15]", "[c16]", "[c17]",
     "[c18]", "[c19]", "[c20]"}

\* [A-D] under re.IGNORECASE
ChoiceLetters == {"A", "B", "C", "D", "a", "b", "c", "d"}

\* CHOICE_PREFIX_RE: ^\s*(?:[A-D]\s*[\)\.\s]|[c1-c20]|(?:\(?\d{1,2}\)?[\.\)]))\s*
\* the group's three branches, in order
CHOICE_PREFIX_RE ==
    <<(<<Bos, Star(Space), One(ChoiceLetters), Star(Space),
         One({")", "."} \cup Space), Star(Space)>>),
      (<<Bos, Star(Space), One(CircledDigits), Star(Space)>>),
      (<<Bos, Star(Space), Opt({"("}), One(Digits), Opt(Digits), Opt({")"}),
         One({".", ")"}), Star(Space)>>)>>

StripOnly(t) == Strip(t)

\* strip_choice_prefix(s) for a str s
strip_choice_prefix(t) == Strip(SubConst(CHOICE_PREFIX_RE, <<>>, t))

\* code_hint, under re.IGNORECASE
CodeHintRe ==
    <<LitI(S_public) \o <<Plus(Space)>> \o LitI(S_class),
      LitI(S_static) \o <<Plus(Space)>> \o LitI(S_void) \o <<Plus(Space)>> \o LitI(S_main),
      <<WordB>> \o LitI(S_for) \o <<Star(Space), One({"("})>>,
      <<WordB>> \o LitI(S_if) \o <<Star(Space), One({"("})>>,
      <<WordB>> \o LitI(S_while) \o <<Star(Space), One({"("})>>,
      LitI(S_include) \o <<Star(Space), One({"<"})>>>>

\* body = str(qq.get("question", "")).replace("\r\n", "\n")
QuestionBody(r) == ReplaceCRLF(IF "question" \in r.keys THEN r.question ELSE <<>>)

\* code_hint.search(body) and the fence delimiter not in body
NeedsFence(body) == Search(CodeHintRe, body) /\ ~Contains(body, Backticks)

\* the body between fence delimiters, tagged with guess_lang(body)
Wrapped(body) ==
    Backticks \o GuessLang(body) \o <<"LF">> \o body \o <<"LF">> \o Backticks

\* \s+\n
BlankTailRe == <<(<<Plus(Space), One({"LF"})>>)>>

\* re.sub(r"\s+\n", "\n", explanation).strip()
CleanExplanation(t) == Strip(SubConst(BlankTailRe, <<"LF">>, t))

\* a question record
Rec(id, ks, q, os, e) ==
    [id |-> id, type |-> "multiple_choice", answer |-> <<"1">>,
     question |-> IF "question" \in ks THEN q ELSE <<>>,
     options |-> IF "options" \in ks THEN os ELSE <<>>,
     explanation |-> IF "explanation" \in ks THEN e ELSE <<>>,
     keys |-> {"id", "type", "answer"} \cup ks]

ContentKeys == {"question", "options", "explanation"}

\* the parts option texts are made of: enumeration markers and content
PostPartsOption == {<<"A">>, <<")">>, <<"SP">>, <<"[c1]">>, <<"1">>, <<"x">>}

\* ... numbered markers, ...
PostPartsNumber == {<<"(">>, <<"1">>, <<")">>, <<".">>, <<"x">>}

\* the parts question bodies are made of: line ends, code and fences
PostPartsBody == {<<"CR">>, <<"LF">>, <<"SP">>, <<"a">>, <<"i", "f", "(">>, Backticks}

\* the parts explanations are made of
PostPartsExplanation == {<<"SP">>, <<"LF">>, <<"TAB">>, <<"a">>}

S_apple == <<"a", "p", "p", "l", "e">>

S_banana == <<"b", "a", "n", "a", "n", "a">>

S_cherry == <<"c", "h", "e", "r", "r", "y">>

\* the options of the prefix-stripping example
ExampleOptions ==
    <<(<<"[c1]", "SP">> \o S_apple), (<<"B", ")", "SP">> \o S_banana),
      (<<"(", "3", ")", "SP">> \o S_cherry)>>

\* the record lists handed to postprocess_questions: one record whose
\* option, question or explanation varies, lists of records that lack some
\* of the keys, and the example
PostInputs ==
    {<<Rec(1, ContentKeys, <<"a">>, <<Flatten(ps)>>, <<"a">>)>> :
        ps \in SeqsUpTo(PostPartsOption, MaxParts)}
    \cup {<<Rec(1, ContentKeys, <<"a">>, <<Flatten(ps)>>, <<"a">>)>> :
            ps \in SeqsUpTo(PostPartsNumber, MaxParts)}
    \cup {<<Rec(1, ContentKeys, Flatten(ps), <<(<<"x">>)>>, <<"a">>)>> :
            ps \in SeqsUpTo(PostPartsBody, MaxParts)}
    \cup {<<Rec(1, ContentKeys, <<"a">>, <<(<<"x">>)>>, Flatten(ps))>> :
            ps \in SeqsUpTo(PostPartsExplanation, MaxParts)}
    \cup {[k \in 1..Len(kss) |->
              Rec(k, kss[k], <<"i", "f", "(">>, <<(<<"A", ")", "SP", "x">>)>>,
                  <<"a", "SP", "LF">>)] :
            kss \in SeqsUpTo(SUBSET ContentKeys, MaxRecords)}
    \cup {<<Rec(1, ContentKeys, <<"a">>, ExampleOptions, <<"a">>)>>}

\* the objects of the call, by address: a dict holds its fields, and under
\* "options" the address of a list (0 when it has none); a list holds its
\* option strings.  The input record r is the dict r with the list r.
InputHeap(qs) ==
    [dicts |-> [r \in 1..Len(qs) |->
                   [rec |-> qs[r],
                    opts |-> IF "options" \in qs[r].keys THEN r ELSE 0]],
     lists |-> [r \in 1..Len(qs) |-> qs[r].options]]

\* the record the dict at address a holds, its options read through the list
DictValue(a) ==
    LET d == heap.dicts[a]
    IN IF d.opts = 0 THEN d.rec ELSE [d.rec EXCEPT !.options = heap.lists[d.opts]]

\* the address of qq: the dict allocated last
QqAddr == Len(heap.dicts)

PostInit ==
    /\ pc = "post_loop"
    /\ questions \in PostInputs
    /\ processed = <<>>
    /\ qi = 1
    /\ qq = <<>>
    /\ post_pass = 1
    /\ post_first = <<>>
    /\ heap = InputHeap(questions)
    /\ AllocIdle /\ ClsIdle /\ NormIdle /\ MixedIdle /\ PipeIdle /\ SingleIdle

PostFrame == UNCHANGED <<questions, processed, qi, post_pass, post_first>>

\* for q in questions: qq = dict(q)
PostCopy ==
    /\ pc = "post_loop"
    /\ qi <= Len(questions)
    /\ qq' = questions[qi]
    /\ heap' = [heap EXCEPT !.dicts = Append(@, heap.dicts[qi])]
    /\ pc' = "post_options"
    /\ PostFrame
    /\ UNCHANGED notPostVars

\* the options of the list at address o, each without its prefix
StrippedList(o) ==
    [k \in 1..Len(heap.lists[o]) |-> strip_choice_prefix(heap.lists[o][k])]

\* a step that strips the options in the list qq["options"] refers to
PostStripOptionsInPlace ==
    /\ pc = "post_options"
    /\ "options" \in qq.keys
    /\ qq' = [qq EXCEPT !.options =
                 [k \in 1..Len(qq.options) |-> strip_choice_prefix(qq.options[k])]]
    /\ heap' = [heap EXCEPT !.lists[heap.dicts[QqAddr].opts] =
                                StrippedList(heap.dicts[QqAddr].opts)]
    /\ pc' = "post_body"
    /\ PostFrame
    /\ UNCHANGED notPostVars

\* qq["options"] is a list: strip the prefix of every option into a new list
PostStripOptions ==
    /\ pc = "post_options"
    /\ "options" \in qq.keys
    /\ qq' = [qq EXCEPT !.options =
                 [k \in 1..Len(qq.options) |-> strip_choice_prefix(qq.options[k])]]
    /\ heap' = [heap EXCEPT !.lists = Append(@, StrippedList(heap.dicts[QqAddr].opts)),
                            !.dicts[QqAddr].opts = Len(heap.lists) + 1]
    /\ pc' = "post_body"
    /\ PostFrame
    /\ UNCHANGED notPostVars

\* no list under "options"
PostNoOptions ==
    /\ pc = "post_options"
    /\ "options" \notin qq.keys
    /\ pc' = "post_body"
    /\ UNCHANGED <<qq, heap>>
    /\ PostFrame
    /\ UNCHANGED notPostVars

\* the body hints at code and holds no fence: wrap it
PostWrapBody ==
    /\ pc = "post_body"
    /\ NeedsFence(QuestionBody(qq))
    /\ qq' = [qq EXCEPT !.question = Wrapped(QuestionBody(qq)),
                        !.keys = @ \cup {"question"}]
    /\ heap' = [heap EXCEPT !.dicts[QqAddr].rec.question = Wrapped(QuestionBody(qq)),
                            !.dicts[QqAddr].rec.keys = @ \cup {"question"}]
    /\ pc' = "post_explanation"
    /\ PostFrame
    /\ UNCHANGED notPostVars

\* else: qq["question"] = body
PostKeepBody ==
    /\ pc = "post_body"
    /\ ~NeedsFence(QuestionBody(qq))
    /\ qq' = [qq EXCEPT !.question = QuestionBody(qq),
                        !.keys = @ \cup {"question"}]
    /\ heap' = [heap EXCEPT !.dicts[QqAddr].rec.question = QuestionBody(qq),
                            !.dicts[QqAddr].rec.keys = @ \cup {"question"}]
    /\ pc' = "post_explanation"
    /\ PostFrame
    /\ UNCHANGED notPostVars

\* "explanation" in qq, a str: tidy its whitespace
PostCleanExplanation ==
    /\ pc = "post_explanation"
    /\ "explanation" \in qq.keys
    /\ qq' = [qq EXCEPT !.explanation = CleanExplanation(@)]
    /\ heap' = [heap EXCEPT !.dicts[QqAddr].rec.explanation = CleanExplanation(@)]
    /\ pc' = "post_append"
    /\ PostFrame
    /\ UNCHANGED notPostVars

PostNoExplanation ==
    /\ pc = "post_explanation"
    /\ "explanation" \notin qq.keys
    /\ pc' = "post_append"
    /\ UNCHANGED <<qq, heap>>
    /\ PostFrame
    /\ UNCHANGED notPostVars

PostPrepend ==
    /\ pc = "post_append"
    /\ processed' = <<qq>> \o processed
    /\ qi' = qi + 1
    /\ pc' = "post_loop"
    /\ UNCHANGED <<questions, qq, post_pass, post_first, heap>>
    /\ UNCHANGED notPostVars

\* processed.append(qq)
PostAppend ==
    /\ pc = "post_append"
    /\ processed' = Append(processed, qq)
    /\ qi' = qi + 1
    /\ pc' = "post_loop"
    /\ UNCHANGED <<questions, qq, post_pass, post_first, heap>>
    /\ UNCHANGED notPostVars

\* return processed
PostReturn ==
    /\ pc = "post_loop"
    /\ qi > Len(questions)
    /\ pc' = "post_done"
    /\ UNCHANGED postVars
    /\ UNCHANGED notPostVars

\* postprocess_questions is called again on what it returned
PostAgain ==
    /\ pc = "post_done"
    /\ post_pass = 1
    /\ post_first' = processed
    /\ questions' = processed
    /\ heap' = InputHeap(processed)
    /\ post_pass' = 2
    /\ processed' = <<>>
    /\ qi' = 1
    /\ qq' = <<>>
    /\ pc' = "post_loop"
    /\ UNCHANGED notPostVars

PostNext ==
    \/ PostCopy \/ PostStripOptions \/ PostNoOptions \/ PostWrapBody
    \/ PostKeepBody \/ PostCleanExplanation \/ PostNoExplanation
    \/ PostAppend \/ PostReturn \/ PostAgain

SpecPost == PostInit /\ [][PostNext]_vars

(***************************************************************************)
(* Properties of the Question Postprocessor.                               *)
(***************************************************************************)
PostDone == pc = "post_done"

\* C10: postprocess_questions(postprocess_questions(qs)) =
\* postprocess_questions(qs) for every list of records qs: the second pass
\* returns what the first pass returned.
C10_Idempotent == (PostDone /\ post_pass = 2) => processed = post_first

\* t holds whitespace only
IsBlank(t) == \A k \in 1..Len(t) : t[k] \in Space

\* m is a number marker: an optional "(", one or two digits, an optional ")"
\* and a closing "." or ")"
IsNumberMarker(m) ==
    \E a \in 0..1 : \E d \in 1..2 : \E b \in 0..1 :
        /\ Len(m) = a + d + b + 1
        /\ a = 1 => m[1] = "("
        /\ \A k \in (a + 1)..(a + d) : m[k] \in Digits
        /\ b = 1 => m[a + d + 1] = ")"
        /\ m[Len(m)] \in {".", ")"}

\* m is an enumeration marker as the pattern reads it: a letter A-D of
\* either case, optional whitespace and a closing ")", "." or whitespace; a
\* circled digit; or a number marker
IsMarker(m) ==
    \/ /\ Len(m) >= 2
       /\ m[1] \in ChoiceLetters
       /\ \A k \in 2..(Len(m) - 1) : m[k] \in Space
       /\ m[Len(m)] \in {")", "."} \cup Space
    \/ Len(m) = 1 /\ m[1] \in CircledDigits
    \/ IsNumberMarker(m)

\* m is an enumeration marker as the claim words it: an upper-case letter
\* A-D directly followed by ")", "." or whitespace; a circled digit; or a
\* bare or parenthesized one/two-digit number closed by "." or ")"
IsLiteralMarker(m) ==
    \/ /\ Len(m) = 2
       /\ m[1] \in {"A", "B", "C", "D"}
       /\ m[2] \in {")", "."} \cup Space
    \/ Len(m) = 1 /\ m[1] \in CircledDigits
    \/ \E a \in 0..1 : \E d \in 1..2 :
          /\ Len(m) = a + d + 1
          /\ a = 1 => m[1] = "("
          /\ \A k \in (a + 1)..(a + d) : m[k] \in Digits
          /\ m[Len(m)] \in {".", ")"}

\* the lengths k for which the first k characters of o are whitespace, a
\* marker, whitespace
MarkerPrefixes(o) ==
    {k \in 1..Len(o) :
        \E a \in 0..k : \E b \in (a + 1)..k :
            /\ IsBlank(SubSeq(o, 1, a))
            /\ IsMarker(SubSeq(o, a + 1, b))
            /\ IsBlank(SubSeq(o, b + 1, k))}

\* the texts left of o by taking away leading whitespace, a marker as the
\* claim words it, and the whitespace after it
LiteralRests(o) ==
    {SubSeq(o, k + 1, Len(o)) : k \in
        {k \in 1..Len(o) :
            /\ \E a \in 0..k : \E b \in (a + 1)..k :
                  /\ IsBlank(SubSeq(o, 1, a))
                  /\ IsLiteralMarker(SubSeq(o, a + 1, b))
                  /\ IsBlank(SubSeq(o, b + 1, k))
            /\ (k < Len(o) => o[k + 1] \notin Space)}}

\* the options of the input records and of the returned records, by record
\* and position
OptionSlots ==
    UNION {{<<r, j>> : j \in 1..Len(questions[r].options)} :
              r \in {r \in 1..Len(questions) :
                        r <= Len(processed) /\ "options" \in questions[r].keys}}

\* C11 as worded: an option that starts with a marker (an upper-case letter
\* A-D directly followed by ")", "." or whitespace; a circled digit; a bare
\* or parenthesized number closed by "." or ")") is returned as the text
\* after the marker and its surrounding whitespace, intact.
C11_LiteralMarkerRemoved ==
    PostDone =>
        \A s \in OptionSlots :
            \A rest \in LiteralRests(questions[s[1]].options[s[2]]) :
                rest = Strip(rest) => processed[s[1]].options[s[2]] = rest

\* C11: an option that starts with an enumeration marker is returned
\* without the longest prefix made of whitespace, one marker and whitespace,
\* the rest trimmed and otherwise intact; a letter marker may hold whitespace
\* before its closing character, a number marker may hold both a closing
\* parenthesis and a closing "." or ")", and letters match in either case.
\* The options of the example become apple, banana, cherry.
C11_PrefixStripped ==
    PostDone =>
        /\ \A s \in OptionSlots :
              LET o == questions[s[1]].options[s[2]]
                  K == MarkerPrefixes(o)
              IN K # {} =>
                    processed[s[1]].options[s[2]] =
                        Strip(SubSeq(o, SetMax(K) + 1, Len(o)))
        /\ (questions # <<>> /\ questions[1].options = ExampleOptions) =>
              processed[1].options = <<S_apple, S_banana, S_cherry>>

\* the example has been postprocessed
C11_Witness ==
    /\ PostDone /\ post_pass = 1
    /\ questions # <<>>
    /\ questions[1].options = ExampleOptions
    /\ processed[1].options = <<S_apple, S_banana, S_cherry>>
    /\ \A j \in 1..3 : MarkerPrefixes(ExampleOptions[j]) # {}

\* C12: the returned list is as long as the argument, its i-th record has
\* the id, type and answer of the i-th input record, and its options list
\* has the length of the input's, each option being the stripped option of
\* the same position.
C12_OrderPreserved ==
    PostDone =>
        /\ Len(processed) = Len(questions)
        /\ \A r \in 1..Len(questions) :
              /\ processed[r].id = questions[r].id
              /\ processed[r].type = questions[r].type
              /\ processed[r].answer = questions[r].answer
              /\ Len(processed[r].options) = Len(questions[r].options)
              /\ \A j \in 1..Len(questions[r].options) :
                    processed[r].options[j] =
                        strip_choice_prefix(questions[r].options[j])

\* a list of two records with different ids has been postprocessed
C12_Witness ==
    /\ PostDone /\ post_pass = 1
    /\ Len(questions) = 2
    /\ questions[1].id # questions[2].id
    /\ "options" \in questions[2].keys
    /\ processed[2].id = questions[2].id

\* C13: every returned record has exactly the keys of its input record, a
\* record that lacks question, options or explanation included, and every
\* key other than question, options and explanation keeps its value.
C13_KeysPreserved ==
    PostDone =>
        \A r \in 1..Len(processed) :
            /\ processed[r].keys = questions[r].keys
            /\ processed[r].id = questions[r].id
            /\ processed[r].type = questions[r].type
            /\ processed[r].answer = questions[r].answer

\* C25: postprocess_questions does not mutate its input: during and after
\* the call every input record, read through its dict and its options list,
\* has the keys, the values and the option strings it was handed with; the
\* changes are in the returned copies only.
C25_InputUnchanged ==
    /\ \A r \in 1..Len(questions) : DictValue(r) = questions[r]
    /\ PostDone =>
          \A r \in 1..Len(processed) : DictValue(Len(questions) + r) = processed[r]

\* a first call has returned a copy whose options, question and explanation
\* all differ from those of its input record
C25_Witness ==
    /\ PostDone /\ post_pass = 1
    /\ questions # <<>>
    /\ \E r \in 1..Len(questions) :
          /\ processed[r].options # questions[r].options
          /\ processed[r].question # questions[r].question
          /\ processed[r].explanation # questions[r].explanation
          /\ DictValue(r) = questions[r]

(***************************************************************************)
(* Mixed generation: generate_mixed_questions and                          *)
(* _generate_typed_questions, in both implementations.  The generation     *)
(* collaborator (the chat completion) either fails or answers with any     *)
(* number of records.  A record is [id, type, tag]; tag names the call and *)
(* the position the record came from.                                      *)
(***************************************************************************)
\* the distributions handed to the loop: one count per category, in dict
\* order (a custom distribution may hold a count of 0)
MixedCounts == SeqsUpTo(0..MaxBatch, MaxTypes) \ {<<>>}

\* category names, by position in the distribution
TypeName(k) == CatNames[k]

\* the records a successful call hands back: the answer's k records,
\* numbered from start_id, typed, and cut to the requested count
TypedBatch(v, qtype, cnt, start_id, k, typed, call) ==
    [j \in 1..Min(k, cnt) |->
        [id |-> start_id + (j - 1),
         type |-> IF v = "simple" /\ typed THEN "llm" ELSE qtype,
         tag |-> <<call, j>>]]

\* the injective maps of 1..m onto itself: the outcomes of random.shuffle
Perms(m) == {f \in [1..m -> 1..m] : \A a, b \in 1..m : f[a] = f[b] => a = b}

KeepIds(qs) == qs

\* for i, q in enumerate(all_questions, 1): q["id"] = i
Renumber(qs) == [k \in 1..Len(qs) |-> [qs[k] EXCEPT !.id = k]]

\* all_questions[:num_questions]
Truncate(qs, m) == SubSeq(qs, 1, Min(Len(qs), m))

MixedInit ==
    /\ pc = "mixed_loop"
    /\ variant \in {"simple", "gpt4o"}
    /\ num_questions \in 1..MaxItems
    /\ \E d \in MixedCounts :
          mdist = [k \in 1..Len(d) |-> [t |-> TypeName(k), cnt |-> d[k]]]
    /\ mk = 1
    /\ all_questions = <<>>
    /\ cursor = 1
    /\ calls = <<>>
    /\ returned = <<>>
    /\ AllocIdle /\ ClsIdle /\ NormIdle /\ PostIdle /\ PipeIdle /\ SingleIdle

\* the loop is at a category for which a generation call is issued
Calling ==
    /\ pc = "mixed_loop"
    /\ mk <= Len(mdist)
    /\ variant = "gpt4o" => mdist[mk].cnt > 0

\* the call answers with k records, with or without a type of their own
MixedCallOk ==
    /\ Calling
    /\ \E k \in 0..(mdist[mk].cnt + 1) : \E typed \in BOOLEAN :
          LET batch == TypedBatch(variant, mdist[mk].t, mdist[mk].cnt, cursor,
                                  k, typed, Len(calls) + 1)
          IN /\ Len(all_questions) + Len(batch) <= MaxItems
             /\ all_questions' = all_questions \o batch
             /\ cursor' = cursor + Len(batch)
             /\ calls' = Append(calls,
                   [t |-> mdist[mk].t, cnt |-> mdist[mk].cnt, start_id |-> cursor,
                    ok |-> TRUE, answered |-> k, got |-> Len(batch)])
    /\ mk' = mk + 1
    /\ UNCHANGED <<pc, variant, num_questions, mdist, returned>>
    /\ UNCHANGED notMixedVars

\* a failing call that ends the loop
MixedCallAbort ==
    /\ Calling
    /\ calls' = Append(calls,
          [t |-> mdist[mk].t, cnt |-> mdist[mk].cnt, start_id |-> cursor,
           ok |-> FALSE, answered |-> 0, got |-> 0])
    /\ mk' = Len(mdist) + 1
    /\ UNCHANGED <<pc, variant, num_questions, mdist, all_questions, cursor, returned>>
    /\ UNCHANGED notMixedVars

\* the call fails: except Exception: return []
MixedCallFail ==
    /\ Calling
    /\ calls' = Append(calls,
          [t |-> mdist[mk].t, cnt |-> mdist[mk].cnt, start_id |-> cursor,
           ok |-> FALSE, answered |-> 0, got |-> 0])
    /\ mk' = mk + 1
    /\ UNCHANGED <<pc, variant, num_questions, mdist, all_questions, cursor, returned>>
    /\ UNCHANGED notMixedVars

\* question_generator_gpt4o.py: if count > 0 is false, no call
MixedSkip ==
    /\ pc = "mixed_loop"
    /\ mk <= Len(mdist)
    /\ variant = "gpt4o"
    /\ mdist[mk].cnt <= 0
    /\ mk' = mk + 1
    /\ UNCHANGED <<pc, variant, num_questions, mdist, all_questions, cursor, calls,
                   returned>>
    /\ UNCHANGED notMixedVars

\* after the loop: shuffle, renumber, return the first num_questions
MixedFinish ==
    /\ pc = "mixed_loop"
    /\ mk > Len(mdist)
    /\ \E f \in Perms(Len(all_questions)) :
          /\ all_questions' =
                Renumber([k \in 1..Len(all_questions) |-> all_questions[f[k]]])
          /\ returned' = Truncate(all_questions', num_questions)
    /\ pc' = "mixed_done"
    /\ UNCHANGED <<variant, num_questions, mdist, mk, cursor, calls>>
    /\ UNCHANGED notMixedVars

MixedNext == MixedCallOk \/ MixedCallFail \/ MixedSkip \/ MixedFinish

SpecMixed == MixedInit /\ [][MixedNext]_vars

(***************************************************************************)
(* Properties of mixed generation.                                         *)
(***************************************************************************)
MixedDone == pc = "mixed_done"

RECURSIVE SumGot(_)
\* the number of records the calls cs contributed
SumGot(cs) == IF cs = <<>> THEN 0 ELSE Head(cs).got + SumGot(Tail(cs))

\* C21: generate_mixed_questions of question_generator.py issues exactly one
\* generation call per category of the distribution, in the distribution's
\* order; every call (of either implementation) is handed the start id 1 + the
\* number of records accumulated so far; a call that fails contributes no
\* record, so the next start id is the same, and the categories after it are
\* still called.
C21_CallProtocol ==
    /\ (variant = "simple" /\ pc = "mixed_loop") =>
          /\ Len(calls) = mk - 1
          /\ \A c \in 1..Len(calls) :
                calls[c].t = mdist[c].t /\ calls[c].cnt = mdist[c].cnt
    /\ (variant = "simple" /\ MixedDone) => Len(calls) = Len(mdist)
    /\ \A c \in 1..Len(calls) :
          /\ calls[c].start_id = 1 + SumGot(SubSeq(calls, 1, c - 1))
          /\ ~calls[c].ok => calls[c].got = 0
          /\ (~calls[c].ok /\ c < Len(calls)) =>
                calls[c + 1].start_id = calls[c].start_id
    /\ pc = "mixed_loop" => Len(all_questions) = SumGot(calls)

\* question_generator.py has returned after a first call that failed and a
\* second call, with the same start id 1, that answered
C21_Witness ==
    /\ MixedDone
    /\ variant = "simple"
    /\ Len(calls) >= 2
    /\ ~calls[1].ok
    /\ calls[2].ok /\ calls[2].got >= 1 /\ calls[2].start_id = 1

\* t holds a word character, a hyphen, a newline and a word character in a
\* row
HasHyphenWrap(t) ==
    \E j \in 1..(Len(t) - 3) :
        /\ t[j] \in WordChars /\ t[j + 1] = "-"
        /\ t[j + 2] = "LF" /\ t[j + 3] \in WordChars

\* C15: the text preprocess_text returns holds no word character followed by
\* a hyphen, a newline and a word character.
C15_NoHyphenWrap == NormDone => ~HasHyphenWrap(result)

\* \d+\s*/\s*\d+ : an <int> / <int> fragment
FractionRe ==
    <<(<<Plus(Digits), Star(Space), One({"/"}), Star(Space), Plus(Digits)>>)>>

\* the line is an <int> / <int> fragment by itself, optionally padded with
\* whitespace
IsPageLine(line) ==
    AltMatchEnd(<<(<<Bos, Star(Space)>> \o FractionRe[1] \o <<Star(Space), Eos>>)>>,
                1, line, 1) # 0

RECURSIVE SharedFractions(_)
\* the fragments of the lines ls that share their line with other text
SharedFractions(ls) ==
    IF ls = <<>> THEN 0
    ELSE (IF IsPageLine(Head(ls)) THEN 0 ELSE Len(FindAll(FractionRe, Head(ls))))
         + SharedFractions(Tail(ls))

\* C16: the page-number step deletes no <int> / <int> fragment that shares
\* its line with other text: every such fragment of the text the step is
\* handed is still in the text it produces.
C16_SharedFractionKept ==
    pc = "norm_collapse" =>
        Len(FindAll(FractionRe, text))
            >= SharedFractions(SplitLines(UnifyNewlines(raw)))

\* a fenced block with nothing between its delimiters
EmptyFence(tag) ==
    Backticks \o tag \o <<"LF">> \o <<"LF">> \o Backticks \o <<"LF">>

\* C22: at every line boundary of the scan, the scanner is IN_CODE if and
\* only if the code buffer is non-empty; so a flush while IN_CODE emits a
\* non-empty fenced block, and no empty fenced block is ever emitted.
C22_InCodeIffBuffered ==
    /\ pc = "norm_scan" => (in_code <=> code_buf # <<>>)
    /\ (pc = "norm_scan" /\ in_code) => StripNewlines(JoinLines(code_buf)) # <<>>
    /\ \A k \in 1..Len(nout) : \A tag \in FenceTags : nout[k] # EmptyFence(tag)

\* the scanner is IN_CODE again at a line boundary, after a flush that emitted
\* a fenced block and a plain line
C22_Witness ==
    /\ pc = "norm_scan" /\ li > 1
    /\ in_code /\ code_buf # <<>>
    /\ \E k \in 1..Len(nout) : HasFence(nout[k])
    /\ \E k \in 1..Len(nout) : ~HasFence(nout[k])

\* the lines one emitted element carries: the block lines of a fenced block
\* (between its opening and its closing delimiter line), or the plain line
LinesOf(e) ==
    IF \E j \in 1..Len(e) : e[j] = "LF"
    THEN LET ls == SplitLines(e) IN SubSeq(ls, 2, Len(ls) - 2)
    ELSE <<e>>

RECURSIVE EmittedLines(_)
\* the lines the emitted elements o carry, in order
EmittedLines(o) == IF o = <<>> THEN <<>> ELSE LinesOf(Head(o)) \o EmittedLines(Tail(o))

\* the first m lines of the scan, right-trimmed
TrimmedLines(m) == [k \in 1..m |-> RStrip(lines[k])]

\* C23: the scan emits every line exactly once and in its original order,
\* right-trimmed, as a plain line or inside a fenced block: at every line
\* boundary the emitted lines followed by the buffered lines are the lines
\* read so far, and after the end-of-input flush the emitted lines are all
\* the lines and the buffer is empty.
C23_LinesPreserved ==
    /\ pc = "norm_scan" =>
          EmittedLines(nout) \o code_buf = TrimmedLines(Min(li - 1, Len(lines)))
    /\ pc = "norm_trail" =>
          /\ EmittedLines(nout) = TrimmedLines(Len(lines))
          /\ code_buf = <<>>

\* the end-of-input flush has emitted a fenced block of two lines or more,
\* after a plain line
C23_Witness ==
    /\ pc = "norm_trail"
    /\ Len(nout) >= 2
    /\ ~HasFence(nout[1])
    /\ HasFence(nout[Len(nout)]) /\ Len(LinesOf(nout[Len(nout)])) >= 2

\* the line the scanner has just handled
ScannedLine == RStrip(lines[li - 1])

\* C20: every line that begins with a metadata label and a colon, whatever
\* the rest of the line contains, flushes the buffered code before it, is
\* emitted as a plain line outside any fenced block, and leaves the scanner
\* in NOT_IN_CODE.
C20_MetaLineLeavesCode ==
    (pc = "norm_scan" /\ li > 1 /\ IsMetaLine(ScannedLine)) =>
        /\ ~in_code
        /\ code_buf = <<>>
        /\ nout # <<>>
        /\ nout[Len(nout)] = ScannedLine

(***************************************************************************)
(* The generate-questions pipeline: FileHandler.extract_text,              *)
(* QualityEvaluator.evaluate_questions and the handler generate_questions  *)
(* of main.py.  The readers, the generator and the external scoring call   *)
(* are collaborators that answer or fail.  A score is a fraction counted  *)
(* in hundredths; a generated question is described by what the evaluator  *)
(* reads of it.                                                            *)
(***************************************************************************)
Metrics == {"faithfulness", "answer_relevancy", "context_precision", "context_recall"}

ImageExtensions == {".jpg", ".jpeg", ".png"}

ReaderExtensions == {".pdf", ".doc", ".docx", ".xls", ".xlsx", ".ppt", ".pptx"}

\* the suffixes of the files handed in
PipeExtensions == {".pdf", ".docx", ".xlsx", ".pptx", ".png", ".txt"}

\* what _extract_from_image returns when the OCR fails
OcrPlaceholder == "no text could be extracted from the image"

\* the texts a reader extracts
PipeTexts == {"", "text"}

\* the score map the handler substitutes when the evaluation raised
ZeroScores == [m \in Metrics |-> Frac(0, 1)]

\* the questions the generator returns: wellformed says that the keys
\* question and answer are present, overlap is the number of words shared
\* with the context, q_len the length of the question, choices the length
\* of the list under "choices" (0: absent), expl_len the length of the
\* explanation (0: absent)
PipeQuestionKinds ==
    {[wellformed |-> TRUE, overlap |-> 12, q_len |-> 50, choices |-> 0, expl_len |-> 20],
     [wellformed |-> TRUE, overlap |-> 0, q_len |-> 5, choices |-> 0, expl_len |-> 0],
     [wellformed |-> TRUE, overlap |-> 5, q_len |-> 15, choices |-> 4, expl_len |-> 20],
     [wellformed |-> FALSE, overlap |-> 0, q_len |-> 0, choices |-> 0, expl_len |-> 0]}

\* the scores the external scoring call answers with, in hundredths
RagasScores == [Metrics -> {0, 80}]

\* min(overlap / 10, 1.0), in hundredths
FaithfulnessOf(q) == Min(q.overlap * 10, 100)

RelevancyOf(q) ==
    IF 20 <= q.q_len /\ q.q_len <= 200 THEN 85
    ELSE IF (10 <= q.q_len /\ q.q_len < 20) \/ (200 < q.q_len /\ q.q_len <= 300) THEN 70
    ELSE 50

PrecisionOf(q) ==
    IF q.choices > 0
    THEN (IF q.choices = 4 THEN 90 ELSE IF q.choices >= 3 THEN 80 ELSE 60)
    ELSE 75

RecallOf(q) == IF q.expl_len > 10 THEN 85 ELSE 60

\* np.mean of the per-question values, in hundredths
Mean(vals) == Frac(SumSeq(vals), Len(vals))

\* _simple_quality_evaluation raises: q["question"] of a record without it
HeuristicRaises(qs, ctx) ==
    qs # <<>> /\ ctx # "" /\ \E k \in 1..Len(qs) : ~qs[k].wellformed

\* _simple_quality_evaluation(questions, context), when it returns
HeuristicScores(qs, ctx) ==
    IF qs = <<>> \/ ctx = "" THEN ZeroScores
    ELSE LET Per(m, q) ==
                 CASE m = "faithfulness" -> FaithfulnessOf(q)
                   [] m = "answer_relevancy" -> RelevancyOf(q)
                   [] m = "context_precision" -> PrecisionOf(q)
                   [] m = "context_recall" -> RecallOf(q)
         IN [m \in Metrics |-> Mean([k \in 1..Len(qs) |-> Per(m, qs[k])])]

\* sum(numeric_scores.values()) / len(numeric_scores), over the product of
\* the four denominators
Average(sc) ==
    LET a == sc["faithfulness"]
        b == sc["answer_relevancy"]
        c == sc["context_precision"]
        d == sc["context_recall"]
    IN Frac(a.num * b.den * c.den * d.den + b.num * a.den * c.den * d.den
              + c.num * a.den * b.den * d.den + d.num * a.den * b.den * c.den,
            4 * a.den * b.den * c.den * d.den)

PipeInit ==
    /\ pc = "extract"
    /\ extension \in PipeExtensions
    /\ reader_fails \in BOOLEAN
    /\ extracted_text = ""
    /\ extract_raised = FALSE
    /\ gen_questions = <<>>
    /\ ragas = ""
    /\ eval_raised = FALSE
    /\ quality_scores = <<>>
    /\ response = <<>>
    /\ AllocIdle /\ ClsIdle /\ NormIdle /\ PostIdle /\ MixedIdle /\ SingleIdle

ExtractFrame ==
    /\ UNCHANGED <<extension, reader_fails, gen_questions, ragas, eval_raised,
                   quality_scores, response>>
    /\ UNCHANGED notPipeVars

\* a PDF or Office file whose reader answers
ExtractRead ==
    /\ pc = "extract"
    /\ extension \in ReaderExtensions
    /\ ~reader_fails
    /\ extracted_text' \in PipeTexts
    /\ UNCHANGED extract_raised
    /\ pc' = "extracted"
    /\ ExtractFrame

\* a PDF or Office file whose reader raises: except Exception: raise
ExtractReadError ==
    /\ pc = "extract"
    /\ extension \in ReaderExtensions
    /\ reader_fails
    /\ extract_raised' = TRUE
    /\ UNCHANGED extracted_text
    /\ pc' = "extracted"
    /\ ExtractFrame

\* an image the OCR reads
ExtractImage ==
    /\ pc = "extract"
    /\ extension \in ImageExtensions
    /\ ~reader_fails
    /\ extracted_text' \in PipeTexts
    /\ UNCHANGED extract_raised
    /\ pc' = "extracted"
    /\ ExtractFrame

\* an image on which the OCR raises: _extract_from_image returns a text
ExtractImageError ==
    /\ pc = "extract"
    /\ extension \in ImageExtensions
    /\ reader_fails
    /\ extracted_text' = OcrPlaceholder
    /\ UNCHANGED extract_raised
    /\ pc' = "extracted"
    /\ ExtractFrame

\* any other suffix: raise ValueError
ExtractUnsupported ==
    /\ pc = "extract"
    /\ extension \notin ReaderExtensions \cup ImageExtensions
    /\ extract_raised' = TRUE
    /\ UNCHANGED extracted_text
    /\ pc' = "extracted"
    /\ ExtractFrame

PipeFrame == UNCHANGED <<extension, reader_fails, extracted_text, extract_raised>>

\* extract_text raised: the handler answers with status 500
PipeAbort ==
    /\ pc = "extracted"
    /\ extract_raised
    /\ response' = [success |-> FALSE, status |-> 500]
    /\ pc' = "responded"
    /\ UNCHANGED <<gen_questions, ragas, eval_raised, quality_scores>>
    /\ PipeFrame
    /\ UNCHANGED notPipeVars

\* question_generator.generate_questions returns a list
PipeGenerate ==
    /\ pc = "extracted"
    /\ ~extract_raised
    /\ gen_questions' \in SeqsUpTo(PipeQuestionKinds, MaxRecords)
    /\ pc' = "generated"
    /\ UNCHANGED <<ragas, eval_raised, quality_scores, response>>
    /\ PipeFrame
    /\ UNCHANGED notPipeVars

\* question_generator.generate_questions raises
PipeGenerateError ==
    /\ pc = "extracted"
    /\ ~extract_raised
    /\ response' = [success |-> FALSE, status |-> 500]
    /\ pc' = "responded"
    /\ UNCHANGED <<gen_questions, ragas, eval_raised, quality_scores>>
    /\ PipeFrame
    /\ UNCHANGED notPipeVars

AllWellformed == \A k \in 1..Len(gen_questions) : gen_questions[k].wellformed

\* evaluate_questions: the external scoring call answers, not all scores 0
EvalRagasScores ==
    /\ pc = "generated"
    /\ AllWellformed
    /\ \E sc \in RagasScores :
          /\ \E m \in Metrics : sc[m] # 0
          /\ quality_scores' = [m \in Metrics |-> Frac(sc[m], 1)]
    /\ ragas' = "ok"
    /\ pc' = "evaluated"
    /\ UNCHANGED <<gen_questions, eval_raised, response>>
    /\ PipeFrame
    /\ UNCHANGED notPipeVars

\* evaluate_questions: the external scoring call answers all 0, or fails
\* (or a record lacks a key while the dataset is built): the heuristic
\* evaluation answers in its place
EvalFallback ==
    /\ pc = "generated"
    /\ ragas' \in (IF AllWellformed THEN {"zero", "fail"} ELSE {"fail"})
    /\ ~HeuristicRaises(gen_questions, extracted_text)
    /\ quality_scores' = HeuristicScores(gen_questions, extracted_text)
    /\ pc' = "evaluated"
    /\ UNCHANGED <<gen_questions, eval_raised, response>>
    /\ PipeFrame
    /\ UNCHANGED notPipeVars

\* evaluate_questions: the heuristic evaluation raises as well
EvalRaise ==
    /\ pc = "generated"
    /\ HeuristicRaises(gen_questions, extracted_text)
    /\ ragas' = "fail"
    /\ eval_raised' = TRUE
    /\ pc' = "evaluated"
    /\ UNCHANGED <<gen_questions, quality_scores, response>>
    /\ PipeFrame
    /\ UNCHANGED notPipeVars

\* the handler answers with the scores and their average
PipeRespond ==
    /\ pc = "evaluated"
    /\ ~eval_raised
    /\ response' = [success |-> TRUE, status |-> 200, questions |-> gen_questions,
                    quality_scores |-> quality_scores,
                    average_score |-> Average(quality_scores)]
    /\ pc' = "responded"
    /\ UNCHANGED <<gen_questions, ragas, eval_raised, quality_scores>>
    /\ PipeFrame
    /\ UNCHANGED notPipeVars

\* evaluate_questions raised: the handler substitutes the zero scores
PipeRespondZero ==
    /\ pc = "evaluated"
    /\ eval_raised
    /\ quality_scores' = ZeroScores
    /\ response' = [success |-> TRUE, status |-> 200, questions |-> gen_questions,
                    quality_scores |-> ZeroScores, average_score |-> Frac(0, 1)]
    /\ pc' = "responded"
    /\ UNCHANGED <<gen_questions, ragas, eval_raised>>
    /\ PipeFrame
    /\ UNCHANGED notPipeVars

PipeNext ==
    \/ ExtractRead \/ ExtractReadError \/ ExtractImage \/ ExtractImageError
    \/ ExtractUnsupported \/ PipeAbort \/ PipeGenerate \/ PipeGenerateError
    \/ EvalRagasScores \/ EvalFallback \/ EvalRaise \/ PipeRespond
    \/ PipeRespondZero

SpecPipe == PipeInit /\ [][PipeNext]_vars

(***************************************************************************)
(* Properties of the pipeline.                                             *)
(***************************************************************************)
Responded == pc = "responded"

\* the response reports success with the generated questions
Succeeded ==
    /\ response.success
    /\ response.status = 200
    /\ response.questions = gen_questions

\* the response carries the zero-valued score map and average
ZeroScored ==
    /\ \A m \in Metrics : response.quality_scores[m].num = 0
    /\ response.average_score.num = 0

\* C17 as worded: when the external scoring call fails, the response
\* reports success with the generated questions, and its scores and
\* average are all 0.
C17_ScoringFailureZero ==
    (Responded /\ ragas = "fail") => (Succeeded /\ ZeroScored)

\* C18: whenever the extraction fails (an unsupported suffix, or a reader
\* that raises), extract_text raises and returns no text.
C18_ExtractionFailureRaised ==
    (pc = "extracted"
       /\ (reader_fails \/ extension \notin ReaderExtensions \cup ImageExtensions))
        => (extract_raised /\ extracted_text = "")


(***************************************************************************)
(* Single-type generation: _generate_simple of question_generator.py and  *)
(* the single-type branch of generate_questions with _generate_batch of   *)
(* question_generator_gpt4o.py.  Each batch call fails or answers with any *)
(* number of records; a record is [id, type, tag], tag naming the batch    *)
(* and the position it came from.                                          *)
(***************************************************************************)
BatchSize == 10

SingleTypes == {"multiple-choice", "true-false", "essay"}

\* num_batches = (num_questions + batch_size - 1) // batch_size
NumBatches == (num_questions + BatchSize - 1) \div BatchSize

\* the start id of the next batch
SingleStartId ==
    IF variant = "simple" THEN Len(all_questions) + 1
    ELSE batch_num * BatchSize + 1

\* the number of records asked of the next batch
SingleCount == Min(BatchSize, num_questions - Len(all_questions))

\* the answer's k records, numbered from start_id; question_generator.py
\* gives a record without a type the requested one
SingleBatch(k, typed) ==
    [j \in 1..k |->
        [id |-> SingleStartId + (j - 1),
         type |-> IF typed THEN "llm"
                  ELSE IF variant = "simple" THEN question_type ELSE "",
         tag |-> <<batch_num + 1, j>>]]

SingleInit ==
    /\ pc = "single_loop"
    /\ variant \in {"simple", "gpt4o"}
    /\ question_type \in SingleTypes
    /\ num_questions \in 1..MaxSingle
    /\ batch_num = 0
    /\ all_questions = <<>>
    /\ returned = <<>>
    /\ mdist = <<>> /\ mk = 0 /\ cursor = 0 /\ calls = <<>>
    /\ AllocIdle /\ ClsIdle /\ NormIdle /\ PostIdle /\ PipeIdle

\* the loop issues another batch: the range is not exhausted, and the break
\* after the previous batch was not taken
Batching ==
    /\ pc = "single_loop"
    /\ batch_num < NumBatches
    /\ Len(all_questions) < num_questions

SingleFrame ==
    /\ UNCHANGED <<pc, variant, question_type, num_questions, returned>>
    /\ UNCHANGED <<mdist, mk, cursor, calls>>
    /\ UNCHANGED notSingleVars

\* the batch call answers with k records, with or without a type of their own
SingleBatchOk ==
    /\ Batching
    /\ \E k \in 0..(SingleCount + MaxExtra) : \E typed \in BOOLEAN :
          all_questions' = all_questions \o SingleBatch(k, typed)
    /\ batch_num' = batch_num + 1
    /\ SingleFrame

\* the batch call fails: nothing is added
SingleBatchFail ==
    /\ Batching
    /\ batch_num' = batch_num + 1
    /\ UNCHANGED all_questions
    /\ SingleFrame

\* return all_questions[:num_questions]
SingleReturn ==
    /\ pc = "single_loop"
    /\ ~Batching
    /\ returned' = Truncate(all_questions, num_questions)
    /\ pc' = "single_done"
    /\ UNCHANGED <<variant, question_type, num_questions, all_questions, batch_num>>
    /\ UNCHANGED <<mdist, mk, cursor, calls>>
    /\ UNCHANGED notSingleVars

SingleNext == SingleBatchOk \/ SingleBatchFail \/ SingleReturn

SpecSingle == SingleInit /\ [][SingleNext]_vars

(***************************************************************************)
(* Properties of single-type generation.                                   *)
(***************************************************************************)
SingleDone == pc = "single_done"

\* C26: in both implementations, whatever number of records each batch call
\* returned (more than requested, fewer, or none on failure), the records
\* generate_questions returns have pairwise distinct ids.
C26_DistinctIds ==
    SingleDone =>
        \A a, b \in 1..Len(returned) :
            a # b => returned[a].id # returned[b].id

=============================================================================
